---------------------------- MODULE Spec2Model ----------------------------
(***************************************************************************)
(* A model of spec-aware-proxy: the relay endpoint (src/routes/index.tsx,  *)
(* POST /api/relay: buildTargetUrl, isSafeTarget, header filtering, one    *)
(* outbound fetch) and the spec-shape cache (src/lib/openapiShape.ts:      *)
(* fetchAndShapeOpenApi, readCache, writeCache).                           *)
(*                                                                         *)
(* Strings of the program are sequences of one-character strings, so that  *)
(* toLowerCase, endsWith, split, the regular expressions and the URL       *)
(* parser are computed character by character.                             *)
(***************************************************************************)
EXTENDS Integers, Sequences, FiniteSets, TLC

VARIABLES
  gInput,      \* guard harness: the URL text handed to new URL (scheme, host)
  gUrl,        \* guard harness: the parsed URL, or NoUrl
  gVerdict,    \* guard harness: what isSafeTarget returned
  gPc,         \* guard harness: "start" | "parsed" | "invalid" | "done"
  rReq,        \* relay: the JSON body of the POST /api/relay request
  rPc,         \* relay: where the handler is
  rTarget,     \* relay: targetUrl, or NoUrl
  rChecked,    \* relay: the URLs (as text) isSafeTarget returned true for
  rCalls,      \* relay: the outbound HTTP requests made, in order
  rUpstream,   \* relay: the response fetch resolved with, or NoResponse
  rResp,       \* relay: the response the handler returned, or NoResponse
  cNow,        \* cache: Date.now(), in milliseconds
  cTicks,      \* cache: how often the clock has advanced
  cEdge,       \* cache: whether caches.default exists in this runtime
  memoryCache, \* cache: the process-local Map, url -> [value, expiresAt]
  edgeCache,   \* cache: caches.default, url -> [body, storedAt, maxAge]
  cReq,        \* cache: the fetchAndShapeOpenApi calls in flight, per slot
  cLast,       \* cache: per url, the last completed memoryCache.set
  cReduced,    \* cache: the urls fetched with 2xx, parsed and reduced
  dDoc,        \* reducer: the value parseOpenApiText returned
  dShape,      \* reducer: what reduceOpenApiSpec returned, or Threw
  dPc,         \* reducer: "start" | "done"
  sState,      \* url state: the AppState handed to encodeStateToSearchParam
  sToken,      \* url state: the search parameter, or NoToken
  sDecoded,    \* url state: what decodeStateFromSearchParam returned
  sPc          \* url state: "start" | "encoded" | "done"

guardVars == <<gInput, gUrl, gVerdict, gPc>>

relayVars == <<rReq, rPc, rTarget, rChecked, rCalls, rUpstream, rResp>>

cacheVars == <<cNow, cTicks, cEdge, memoryCache, edgeCache, cReq, cLast,
               cReduced>>

reduceVars == <<dDoc, dShape, dPc>>

stateVars == <<sState, sToken, sDecoded, sPc>>

vars == <<gInput, gUrl, gVerdict, gPc,
          rReq, rPc, rTarget, rChecked, rCalls, rUpstream, rResp,
          cNow, cTicks, cEdge, memoryCache, edgeCache, cReq, cLast, cReduced,
          dDoc, dShape, dPc, sState, sToken, sDecoded, sPc>>

-----------------------------------------------------------------------------
(* Strings as sequences of characters *)

UpperChars ==
  <<"A","B","C","D","E","F","G","H","I","J","K","L","M",
    "N","O","P","Q","R","S","T","U","V","W","X","Y","Z">>

LowerChars ==
  <<"a","b","c","d","e","f","g","h","i","j","k","l","m",
    "n","o","p","q","r","s","t","u","v","w","x","y","z">>

DigitChars == <<"0","1","2","3","4","5","6","7","8","9">>

IsDigit(c) == \E i \in 1..10 : DigitChars[i] = c

DigitVal(c) == (CHOOSE i \in 1..10 : DigitChars[i] = c) - 1

LowerChar(c) ==
  IF \E i \in 1..26 : UpperChars[i] = c
  THEN LowerChars[CHOOSE i \in 1..26 : UpperChars[i] = c]
  ELSE c

UpperChar(c) ==
  IF \E i \in 1..26 : LowerChars[i] = c
  THEN UpperChars[CHOOSE i \in 1..26 : LowerChars[i] = c]
  ELSE c

\* String.prototype.toLowerCase
ToLowerCase(s) == [i \in 1..Len(s) |-> LowerChar(s[i])]

\* String.prototype.toUpperCase
\* toUpperCase left out: the method is compared as the caller spelled it
ToUpperCase_AsGiven(s) == s

ToUpperCase(s) == [i \in 1..Len(s) |-> UpperChar(s[i])]

\* String.prototype.endsWith
EndsWith(s, suf) ==
  /\ Len(s) >= Len(suf)
  /\ SubSeq(s, Len(s) - Len(suf) + 1, Len(s)) = suf

\* String.prototype.startsWith
StartsWith(s, pre) ==
  /\ Len(s) >= Len(pre)
  /\ SubSeq(s, 1, Len(pre)) = pre

\* String.prototype.includes
Includes(s, sub) ==
  \E i \in 1..(Len(s) - Len(sub) + 1) : SubSeq(s, i, i + Len(sub) - 1) = sub

\* the index of the first occurrence of character c in s, 0 when there is none
IndexOfChar(s, c) ==
  IF \E i \in 1..Len(s) : s[i] = c
  THEN CHOOSE i \in 1..Len(s) : s[i] = c /\ \A j \in 1..(i - 1) : s[j] # c
  ELSE 0

RECURSIVE Split(_, _)
\* String.prototype.split on a one-character separator
Split(s, sep) ==
  LET At(i) ==
        IF i = 0 THEN <<s>>
        ELSE <<SubSeq(s, 1, i - 1)>> \o Split(SubSeq(s, i + 1, Len(s)), sep)
  IN At(IndexOfChar(s, sep))

\* /^\d+$/
AllDigits(s) == Len(s) >= 1 /\ \A i \in 1..Len(s) : IsDigit(s[i])

RECURSIVE ParseBase(_, _)
\* the value of a digit string in the given base
ParseBase(s, base) ==
  IF Len(s) = 0 THEN 0
  ELSE ParseBase(SubSeq(s, 1, Len(s) - 1), base) * base + DigitVal(s[Len(s)])

\* Number(n) for a string of decimal digits (leading zeros allowed)
Number(s) == ParseBase(s, 10)

RECURSIVE DecimalString(_)
\* the decimal text of a natural number
DecimalString(n) ==
  IF n < 10 THEN <<DigitChars[n + 1]>>
  ELSE DecimalString(n \div 10) \o <<DigitChars[(n % 10) + 1]>>

RECURSIVE Join(_, _)
\* Array.prototype.join
Join(parts, sep) ==
  IF Len(parts) = 0 THEN <<>>
  ELSE IF Len(parts) = 1 THEN parts[1]
  ELSE parts[1] \o sep \o Join(Tail(parts), sep)


-----------------------------------------------------------------------------
(* Text constants of the program *)

S_http == <<"h","t","t","p">>
S_https == <<"h","t","t","p","s">>
S_ftp == <<"f","t","p">>
P_http == S_http \o <<":">>
P_https == S_https \o <<":">>
S_localhost == <<"l","o","c","a","l","h","o","s","t">>
S_dot_localhost == <<".">> \o S_localhost
S_0_0_0_0 == <<"0",".","0",".","0",".","0">>
S_127_0_0_1 == <<"1","2","7",".","0",".","0",".","1">>
S_ipv6_loopback == <<":",":","1">>
S_169_254_169_254 ==
  <<"1","6","9",".","2","5","4",".","1","6","9",".","2","5","4">>
S_sep == <<":", "/", "/">>
S_example == <<"a","p","i",".","e","x","a","m","p","l","e",".","c","o","m">>

-----------------------------------------------------------------------------
(* new URL(...): the host parser of the URL standard, for http(s)/ftp URLs. *)
(* Hex IPv4 parts (0x..) and non-ASCII hosts are outside the inputs used.   *)

NoUrl == [ok |-> FALSE]

\* code points the host parser refuses in a domain
ForbiddenHostChars ==
  {" ", "#", "/", ":", "<", ">", "?", "@", "[", "\\", "]", "^", "|", "%"}

\* one part of an IPv4 host: -1 when it is not a number, else its value
\* (a leading 0 makes it octal)
Ipv4PartValue(part) ==
  IF ~AllDigits(part) THEN -1
  ELSE IF Len(part) >= 2 /\ part[1] = "0"
    THEN IF \A i \in 1..Len(part) : DigitVal(part[i]) <= 7
         THEN ParseBase(part, 8) ELSE -1
    ELSE ParseBase(part, 10)

\* the parts of a host that ends in a number, one trailing empty part dropped
Ipv4Parts(host) ==
  LET DropEmptyLast(parts) ==
        IF Len(parts) > 1 /\ parts[Len(parts)] = <<>>
        THEN SubSeq(parts, 1, Len(parts) - 1) ELSE parts
  IN DropEmptyLast(Split(host, "."))

\* "ends in a number": the last part is numeric
EndsInNumber(host) ==
  LET LastIsNumber(parts) == AllDigits(parts[Len(parts)])
  IN LastIsNumber(Ipv4Parts(host))

RECURSIVE Pow256(_)
Pow256(n) == IF n = 0 THEN 1 ELSE 256 * Pow256(n - 1)

\* the four octets of an IPv4 host text, <<>> when the IPv4 parser fails
Ipv4Octets(host) ==
  LET Octets(vals, n) ==
        IF n > 4 \/ \E i \in 1..n : vals[i] < 0 THEN <<>>
        ELSE IF \E i \in 1..(n - 1) : vals[i] > 255 THEN <<>>
        ELSE IF vals[n] \div Pow256(4 - n) > 255 THEN <<>>
        ELSE [i \in 1..4 |->
                IF i < n THEN vals[i]
                ELSE (vals[n] \div Pow256(4 - i)) % 256]
      Values(parts) ==
        Octets([i \in 1..Len(parts) |-> Ipv4PartValue(parts[i])], Len(parts))
  IN Values(Ipv4Parts(host))

\* the serialised IPv4 address a.b.c.d
DottedQuad(o) ==
  Join([i \in 1..4 |-> DecimalString(o[i])], <<".">>)

\* URL.hostname for the host text of a special-scheme URL: lower-cased, an
\* IPv4 address in canonical dotted-quad form, an IPv6 address kept in its
\* square brackets. [ok |-> FALSE] when new URL throws.
ParseHost(raw) ==
  LET Ipv4(o) ==
        IF o = <<>> THEN [ok |-> FALSE]
        ELSE [ok |-> TRUE, hostname |-> DottedQuad(o)]
      Domain(host) ==
        IF \E i \in 1..Len(host) : host[i] \in ForbiddenHostChars
          THEN [ok |-> FALSE]
        ELSE IF EndsInNumber(host) THEN Ipv4(Ipv4Octets(host))
        ELSE [ok |-> TRUE, hostname |-> host]
      Host(lower) ==
        IF Len(lower) = 0 THEN [ok |-> FALSE]
        ELSE IF lower[1] = "["
          THEN IF lower[Len(lower)] = "]" /\ Len(lower) > 2
               THEN [ok |-> TRUE, hostname |-> lower]
               ELSE [ok |-> FALSE]
        ELSE Domain(lower)
  IN Host(ToLowerCase(raw))

-----------------------------------------------------------------------------
(* new URL(text) and new URL(text, base): the URL parser of the URL        *)
(* standard for the special schemes http, https, ftp, ws, wss. A URL is    *)
(* [ok, protocol, hostname, port, pathname, query]; query is the list of   *)
(* <<name, value>> pairs of searchParams. Fragments are dropped (they are  *)
(* never sent), user info is parsed and dropped.                           *)

SpecialSchemes ==
  {S_http, S_https, S_ftp, <<"w","s">>, <<"w","s","s">>}

IsAlpha(c) ==
  \E i \in 1..26 : UpperChars[i] = c \/ LowerChars[i] = c

IsSchemeChar(c) == IsAlpha(c) \/ IsDigit(c) \/ c \in {"+", "-", "."}

IsSlash(c) == c = "/" \/ c = "\\"

\* the position of the ":" ending a leading scheme, 0 when text has none
SchemeEnd(text) ==
  LET At(i) ==
        IF i >= 2 /\ IsAlpha(text[1])
           /\ \A j \in 1..(i - 1) : IsSchemeChar(text[j])
        THEN i ELSE 0
  IN At(IndexOfChar(text, ":"))

\* the index of the first character of s that is in set cs, Len(s)+1 if none
FirstOf(s, cs) ==
  IF \E i \in 1..Len(s) : s[i] \in cs
  THEN CHOOSE i \in 1..Len(s) : s[i] \in cs /\ \A j \in 1..(i - 1) : s[j] \notin cs
  ELSE Len(s) + 1

\* the index of the last occurrence of c in s, 0 when there is none
LastIndexOfChar(s, c) ==
  IF \E i \in 1..Len(s) : s[i] = c
  THEN CHOOSE i \in 1..Len(s) : s[i] = c /\ \A j \in (i + 1)..Len(s) : s[j] # c
  ELSE 0

RECURSIVE SkipSlashes(_)
SkipSlashes(s) ==
  IF Len(s) > 0 /\ IsSlash(s[1]) THEN SkipSlashes(Tail(s)) ELSE s

\* the path percent-encode set (the characters of it that the inputs use)
PathEncodeChar(c) ==
  CASE c = " " -> <<"%","2","0">>
    [] c = "\"" -> <<"%","2","2">>
    [] c = "<" -> <<"%","3","C">>
    [] c = ">" -> <<"%","3","E">>
    [] c = "{" -> <<"%","7","B">>
    [] c = "}" -> <<"%","7","D">>
    [] OTHER -> <<c>>

RECURSIVE FlatMap(_, _)
FlatMap(s, i) ==
  IF i > Len(s) THEN <<>> ELSE PathEncodeChar(s[i]) \o FlatMap(s, i + 1)

RECURSIVE NormalizeSegments(_, _)
\* dot segments: "." is dropped, ".." removes the segment before it
NormalizeSegments(segs, acc) ==
  IF Len(segs) = 0 THEN acc
  ELSE LET seg == Head(segs)
           last == Len(segs) = 1
       IN
       IF seg = <<".">>
         THEN NormalizeSegments(Tail(segs), IF last THEN Append(acc, <<>>) ELSE acc)
       ELSE IF seg = <<".", ".">>
         THEN LET popped == IF Len(acc) > 0 THEN SubSeq(acc, 1, Len(acc) - 1)
                            ELSE acc
              IN NormalizeSegments(Tail(segs),
                                   IF last THEN Append(popped, <<>>) ELSE popped)
       ELSE NormalizeSegments(Tail(segs), Append(acc, seg))

\* URL.pathname for a path text that starts with a slash: backslashes are
\* slashes, dot segments are resolved, the path set is percent-encoded
Pathname(text) ==
  <<"/">> \o
  FlatMap(Join(NormalizeSegments(
                 Split(Tail([i \in 1..Len(text) |->
                               IF text[i] = "\\" THEN "/" ELSE text[i]]), "/"),
                 <<>>), <<"/">>), 1)

\* one name=value pair of a query text
QueryPair(text) ==
  LET At(i) ==
        IF i = 0 THEN <<text, <<>>>>
        ELSE <<SubSeq(text, 1, i - 1), SubSeq(text, i + 1, Len(text))>>
  IN At(IndexOfChar(text, "="))

\* URLSearchParams of a query text (without its "?")
ParseQuery(text) ==
  LET Pairs(kept) == [i \in 1..Len(kept) |-> QueryPair(kept[i])]
  IN Pairs(SelectSeq(Split(text, "&"), LAMBDA q : Len(q) > 0))

\* path, query and (dropped) fragment of the text after the authority
PathAndQuery(rest) ==
  LET At(noFrag, q) ==
        [pathname |-> IF q = 1 THEN <<"/">>
                      ELSE Pathname(SubSeq(noFrag, 1, q - 1)),
         query |-> IF q > Len(noFrag) THEN <<>>
                   ELSE ParseQuery(SubSeq(noFrag, q + 1, Len(noFrag)))]
      NoFragment(noFrag) == At(noFrag, FirstOf(noFrag, {"?"}))
  IN NoFragment(SubSeq(rest, 1, FirstOf(rest, {"#"}) - 1))

\* the authority state: [user ":" password "@"] host [":" port], then the path
ParseAuthority(scheme, text) ==
  LET Make(h, port, pq) ==
        IF ~h.ok \/ (Len(port) > 0 /\ ~AllDigits(port)) THEN NoUrl
        ELSE [ok |-> TRUE, protocol |-> scheme \o <<":">>,
              hostname |-> h.hostname, port |-> port,
              pathname |-> pq.pathname, query |-> pq.query]
      \* colon: the position of the ":" before the port, 0 when there is none
      HostAndPort(hostport, colon, rest) ==
        Make(ParseHost(IF colon = 0 THEN hostport
                       ELSE SubSeq(hostport, 1, colon - 1)),
             IF colon = 0 THEN <<>>
             ELSE SubSeq(hostport, colon + 1, Len(hostport)),
             PathAndQuery(rest))
      \* close: the position of the "]" of an IPv6 host, 0 when there is none
      PortColon(hostport, close) ==
        IF close > 0
        THEN (IF close < Len(hostport) /\ hostport[close + 1] = ":"
              THEN close + 1 ELSE 0)
        ELSE IndexOfChar(hostport, ":")
      AfterUserInfo(hostport, rest) ==
        HostAndPort(hostport, PortColon(hostport, IndexOfChar(hostport, "]")),
                    rest)
      Authority(auth, rest) ==
        AfterUserInfo(SubSeq(auth, LastIndexOfChar(auth, "@") + 1, Len(auth)),
                      rest)
      EndsAt(e) == Authority(SubSeq(text, 1, e - 1), SubSeq(text, e, Len(text)))
  IN EndsAt(FirstOf(text, {"/", "\\", "?", "#"}))

\* the relative state: text has no scheme and is resolved against base
ParseRelative(text, base) ==
  LET With(pq) == [base EXCEPT !.pathname = pq.pathname, !.query = pq.query]
  IN
  IF Len(text) = 0 THEN base
  ELSE IF IsSlash(text[1]) /\ Len(text) >= 2 /\ IsSlash(text[2])
    THEN ParseAuthority(SubSeq(base.protocol, 1, Len(base.protocol) - 1),
                        SkipSlashes(text))
  ELSE IF text[1] = "?"
    THEN [base EXCEPT !.query = ParseQuery(SubSeq(text, 2, FirstOf(text, {"#"}) - 1))]
  ELSE IF text[1] = "#" THEN base
  ELSE With(PathAndQuery(
              IF IsSlash(text[1]) THEN text
              ELSE SubSeq(base.pathname, 1, LastIndexOfChar(base.pathname, "/"))
                   \o text))

\* new URL(text, base); base = NoUrl is new URL(text). NoUrl when it throws.
NewURL(text, base) ==
  LET \* relative: text has no scheme, or the scheme of base and no "//" after it
      Parse(scheme, rest, relative) ==
        IF relative
          THEN (IF base.ok THEN ParseRelative(rest, base) ELSE NoUrl)
        ELSE IF scheme \in SpecialSchemes
          THEN ParseAuthority(scheme, SkipSlashes(rest))
        ELSE [ok |-> TRUE, protocol |-> scheme \o <<":">>, hostname |-> <<>>,
              port |-> <<>>, pathname |-> rest, query |-> <<>>]
      Scheme(scheme, rest) ==
        Parse(scheme, rest,
              \/ Len(scheme) = 0
              \/ /\ scheme \in SpecialSchemes
                 /\ base.ok
                 /\ base.protocol = scheme \o <<":">>
                 /\ ~(Len(rest) >= 2 /\ rest[1] = "/" /\ rest[2] = "/"))
      At(i) == Scheme(ToLowerCase(SubSeq(text, 1, i - 1)),
                      SubSeq(text, i + 1, Len(text)))
  IN At(SchemeEnd(text))

\* URL.host: hostname[:port]
UrlHost(url) ==
  IF Len(url.port) = 0 THEN url.hostname ELSE url.hostname \o <<":">> \o url.port

-----------------------------------------------------------------------------
(* isSafeTarget, src/routes/index.tsx *)

\* /^\d+\.\d+\.\d+\.\d+$/.test(host)
IsDottedQuadText(host) ==
  LET parts == Split(host, ".") IN
  Len(parts) = 4 /\ \A i \in 1..4 : AllDigits(parts[i])

\* isSafeTarget with the upper end of 172.16.0.0/12 off by one
isSafeTarget_OffByOne(url) ==
  IF url.protocol # P_http /\ url.protocol # P_https THEN FALSE
  ELSE LET host == ToLowerCase(url.hostname) IN
    IF host = S_localhost \/ EndsWith(host, S_dot_localhost) THEN FALSE
    ELSE IF host = S_0_0_0_0 \/ host = S_127_0_0_1 \/ host = S_ipv6_loopback
      THEN FALSE
    ELSE IF host = S_169_254_169_254 THEN FALSE
    ELSE IF IsDottedQuadText(host)
      THEN LET parts == Split(host, ".")
               a == Number(parts[1])
               b == Number(parts[2])
           IN
           IF a = 10 THEN FALSE
           ELSE IF a = 192 /\ b = 168 THEN FALSE
           ELSE IF a = 172 /\ b >= 16 /\ b < 31 THEN FALSE
           ELSE TRUE
    ELSE TRUE

isSafeTarget(url) ==
  IF url.protocol # P_http /\ url.protocol # P_https THEN FALSE
  ELSE LET host == ToLowerCase(url.hostname) IN
    IF host = S_localhost \/ EndsWith(host, S_dot_localhost) THEN FALSE
    ELSE IF host = S_0_0_0_0 \/ host = S_127_0_0_1 \/ host = S_ipv6_loopback
      THEN FALSE
    ELSE IF host = S_169_254_169_254 THEN FALSE
    ELSE IF IsDottedQuadText(host)
      THEN LET parts == Split(host, ".")
               a == Number(parts[1])
               b == Number(parts[2])
           IN
           IF a = 10 THEN FALSE
           ELSE IF a = 192 /\ b = 168 THEN FALSE
           ELSE IF a = 172 /\ b >= 16 /\ b <= 31 THEN FALSE
           ELSE TRUE
    ELSE TRUE

-----------------------------------------------------------------------------
(* buildTargetUrl, src/routes/index.tsx. A string-keyed map of the request *)
(* (pathParams, queryParams, headers) is the sequence of its <<key, value>> *)
(* entries in Object.entries order, keys distinct.                         *)

Absent == <<"undefined">>

\* characters encodeURIComponent leaves alone
IsUriUnreserved(c) ==
  IsAlpha(c) \/ IsDigit(c) \/ c \in {"-", "_", ".", "!", "~", "*", "'", "(", ")"}

\* the percent escape of an ASCII character that encodeURIComponent escapes
PercentEscape(c) ==
  CASE c = " " -> <<"%","2","0">>
    [] c = "\"" -> <<"%","2","2">>
    [] c = "#" -> <<"%","2","3">>
    [] c = "%" -> <<"%","2","5">>
    [] c = "&" -> <<"%","2","6">>
    [] c = "+" -> <<"%","2","B">>
    [] c = "/" -> <<"%","2","F">>
    [] c = ":" -> <<"%","3","A">>
    [] c = "=" -> <<"%","3","D">>
    [] c = "?" -> <<"%","3","F">>
    [] c = "@" -> <<"%","4","0">>
    [] c = "\\" -> <<"%","5","C">>
    [] c = "{" -> <<"%","7","B">>
    [] c = "}" -> <<"%","7","D">>
    [] c = "!" -> <<"%","2","1">>
    [] c = "'" -> <<"%","2","7">>
    [] c = "(" -> <<"%","2","8">>
    [] c = ")" -> <<"%","2","9">>
    [] c = "~" -> <<"%","7","E">>
    [] c = "<" -> <<"%","3","C">>
    [] c = ">" -> <<"%","3","E">>
    [] c = "[" -> <<"%","5","B">>
    [] c = "]" -> <<"%","5","D">>
    [] c = "," -> <<"%","2","C">>
    [] c = ";" -> <<"%","3","B">>
    [] c = "$" -> <<"%","2","4">>
    [] OTHER -> <<"%","?","?">>

RECURSIVE encodeURIComponent(_)
encodeURIComponent(s) ==
  IF Len(s) = 0 THEN <<>>
  ELSE (IF IsUriUnreserved(s[1]) THEN <<s[1]>> ELSE PercentEscape(s[1]))
       \o encodeURIComponent(Tail(s))

\* members every plain object inherits from Object.prototype, with the text
\* String() gives for each
ObjectPrototype ==
  << <<<<"c","o","n","s","t","r","u","c","t","o","r">>, <<"f","u","n","c","t","i","o","n"," ","O","b","j","e","c","t","(",")"," ","{"," ","[","n","a","t","i","v","e"," ","c","o","d","e","]"," ","}">>>>,
     <<<<"t","o","S","t","r","i","n","g">>, <<"f","u","n","c","t","i","o","n"," ","t","o","S","t","r","i","n","g","(",")"," ","{"," ","[","n","a","t","i","v","e"," ","c","o","d","e","]"," ","}">>>>,
     <<<<"v","a","l","u","e","O","f">>, <<"f","u","n","c","t","i","o","n"," ","v","a","l","u","e","O","f","(",")"," ","{"," ","[","n","a","t","i","v","e"," ","c","o","d","e","]"," ","}">>>>,
     <<<<"_","_","p","r","o","t","o","_","_">>, <<"[","o","b","j","e","c","t"," ","O","b","j","e","c","t","]">>>> >>

\* the value of key among entries, Absent when there is none
Own(entries, key) ==
  IF \E i \in 1..Len(entries) : entries[i][1] = key
  THEN entries[CHOOSE i \in 1..Len(entries) : entries[i][1] = key][2]
  ELSE Absent

\* map[key] ?? '' for a plain object given as its own entries, as text: an
\* own property, else a member inherited from Object.prototype, else ''
Lookup(entries, key) ==
  IF Own(entries, key) # Absent THEN Own(entries, key)
  ELSE IF Own(ObjectPrototype, key) # Absent THEN Own(ObjectPrototype, key)
  ELSE <<>>

RECURSIVE ReplaceTokens(_, _)
\* path.replace(/\{([^}]+)\}/g, (_m, name) => encodeURIComponent(pathParams[name] ?? ''))
ReplaceTokens(path, pathParams) ==
  LET \* close: the position in rest of the first "}", 0 when there is none
      At(rest, close) ==
        IF path[1] = "{" /\ close >= 2
        THEN encodeURIComponent(Lookup(pathParams, SubSeq(rest, 1, close - 1)))
             \o ReplaceTokens(SubSeq(rest, close + 1, Len(rest)), pathParams)
        ELSE <<path[1]>> \o ReplaceTokens(rest, pathParams)
  IN
  IF Len(path) = 0 THEN <<>>
  ELSE At(Tail(path), IndexOfChar(Tail(path), "}"))

\* URLSearchParams.set: the first pair named k gets v and the other pairs
\* named k are removed; a new pair is appended when there is none
SearchParamsSet(query, k, v) ==
  LET Unmark(kept) == [i \in 1..Len(kept) |-> <<kept[i][1], kept[i][2]>>]
      Replace(first) ==
        Unmark(SelectSeq([i \in 1..Len(query) |->
                            IF i = first THEN <<k, v, "keep">>
                            ELSE IF query[i][1] = k THEN <<k, v, "drop">>
                            ELSE <<query[i][1], query[i][2], "keep">>],
                         LAMBDA q : q[3] = "keep"))
  IN
  IF \E i \in 1..Len(query) : query[i][1] = k
  THEN Replace(CHOOSE i \in 1..Len(query) :
                 query[i][1] = k /\ \A j \in 1..(i - 1) : query[j][1] # k)
  ELSE Append(query, <<k, v>>)

RECURSIVE SetAll(_, _)
\* for (const [k, v] of Object.entries(queryParams)) url.searchParams.set(k, v)
SetAll(query, entries) ==
  IF Len(entries) = 0 THEN query
  ELSE SetAll(SearchParamsSet(query, entries[1][1], entries[1][2]), Tail(entries))

buildTargetUrl(input) ==
  LET SetQuery(url) ==
        IF ~url.ok THEN NoUrl
        ELSE [url EXCEPT !.query = SetAll(url.query, input.queryParams)]
      Resolve(base, pathWithParams) ==
        SetQuery(IF base.ok THEN NewURL(pathWithParams, base) ELSE NoUrl)
  IN Resolve(NewURL(input.baseUrl, NoUrl),
             ReplaceTokens(input.path, input.pathParams))

\* application/x-www-form-urlencoded serialisation of one name or value
RECURSIVE FormEncode(_)
FormEncode(s) ==
  IF Len(s) = 0 THEN <<>>
  ELSE (IF s[1] = " " THEN <<"+">>
        ELSE IF IsAlpha(s[1]) \/ IsDigit(s[1]) \/ s[1] \in {"*", "-", ".", "_"}
          THEN <<s[1]>>
        ELSE PercentEscape(s[1]))
       \o FormEncode(Tail(s))

\* URL.origin: scheme://host[:port]
UrlOrigin(url) == url.protocol \o <<"/", "/">> \o UrlHost(url)

\* URL.toString()
UrlToString(url) ==
  (IF url.protocol \notin {s \o <<":">> : s \in SpecialSchemes}
   THEN url.protocol \o url.pathname
   ELSE UrlOrigin(url) \o url.pathname)
       \o (IF Len(url.query) = 0 THEN <<>>
           ELSE <<"?">> \o Join([i \in 1..Len(url.query) |->
                                   FormEncode(url.query[i][1]) \o <<"=">>
                                   \o FormEncode(url.query[i][2])], <<"&">>))

-----------------------------------------------------------------------------
(* JSON.parse followed by JSON.stringify, for JSON texts made of objects,  *)
(* arrays, strings without escapes, non-negative integers, true, false and *)
(* null, with spaces as the only white space and no repeated or           *)
(* integer-like keys: the text is validated and re-emitted without its     *)
(* insignificant white space. [ok |-> FALSE] when JSON.parse throws.       *)

RECURSIVE SkipSpaces(_, _)
SkipSpaces(s, i) ==
  IF i <= Len(s) /\ s[i] = " " THEN SkipSpaces(s, i + 1) ELSE i

\* the index after the run of digits that starts at i
RECURSIVE DigitsEnd(_, _)
DigitsEnd(s, i) ==
  IF i <= Len(s) /\ IsDigit(s[i]) THEN DigitsEnd(s, i + 1) ELSE i

JsonFail == [ok |-> FALSE, next |-> 0, text |-> <<>>]

\* a string token that starts at the quote s[i]
JsonString(s, i) ==
  LET rest == SubSeq(s, i + 1, Len(s))
      close == IndexOfChar(rest, "\"")
  IN
  IF close = 0 \/ \E j \in 1..(close - 1) : rest[j] = "\\" THEN JsonFail
  ELSE [ok |-> TRUE, next |-> i + close + 1, text |-> SubSeq(s, i, i + close)]

JsonLiteral(s, i, word) ==
  IF SubSeq(s, i, i + Len(word) - 1) = word
  THEN [ok |-> TRUE, next |-> i + Len(word), text |-> word]
  ELSE JsonFail

\* the scalar token (string, number, true, false, null) that starts at s[i]
JsonScalar(s, i) ==
  IF s[i] = "\"" THEN JsonString(s, i)
  ELSE IF IsDigit(s[i])
    THEN LET e == DigitsEnd(s, i) IN
         IF s[i] = "0" /\ e > i + 1 THEN JsonFail
         ELSE [ok |-> TRUE, next |-> e, text |-> SubSeq(s, i, e - 1)]
  ELSE IF s[i] = "t" THEN JsonLiteral(s, i, <<"t","r","u","e">>)
  ELSE IF s[i] = "f" THEN JsonLiteral(s, i, <<"f","a","l","s","e">>)
  ELSE IF s[i] = "n" THEN JsonLiteral(s, i, <<"n","u","l","l">>)
  ELSE JsonFail

\* what may follow a complete value: the end of the text at the top level,
\* a comma or the closing bracket inside an object or an array
AfterValue(stack) == IF Len(stack) = 0 THEN "end" ELSE "commaOrClose"

Pop(stack) == SubSeq(stack, 1, Len(stack) - 1)

RECURSIVE JsonScan(_, _, _, _, _)
\* the parser from s[i] on: stack holds the open "{" and "[", expect says
\* what the grammar allows next, out is the text emitted so far
JsonScan(s, i, stack, expect, out) ==
  IF i > Len(s)
    THEN (IF expect = "end" THEN [ok |-> TRUE, text |-> out] ELSE [ok |-> FALSE])
  ELSE IF s[i] = " " THEN JsonScan(s, i + 1, stack, expect, out)
  ELSE IF expect = "end" THEN [ok |-> FALSE]
  ELSE IF expect = "colon"
    THEN (IF s[i] = ":" THEN JsonScan(s, i + 1, stack, "value", out \o <<":">>)
          ELSE [ok |-> FALSE])
  ELSE IF expect = "commaOrClose"
    THEN (IF s[i] = ","
            THEN JsonScan(s, i + 1, stack,
                          IF stack[Len(stack)] = "{" THEN "key" ELSE "value",
                          out \o <<",">>)
          ELSE IF (s[i] = "}" /\ stack[Len(stack)] = "{")
                  \/ (s[i] = "]" /\ stack[Len(stack)] = "[")
            THEN JsonScan(s, i + 1, Pop(stack), AfterValue(Pop(stack)),
                          out \o <<s[i]>>)
          ELSE [ok |-> FALSE])
  ELSE IF expect \in {"key", "keyOrClose"}
    THEN (IF s[i] = "}" /\ expect = "keyOrClose"
            THEN JsonScan(s, i + 1, Pop(stack), AfterValue(Pop(stack)),
                          out \o <<"}">>)
          ELSE IF s[i] = "\"" /\ JsonString(s, i).ok
            THEN JsonScan(s, JsonString(s, i).next, stack, "colon",
                          out \o JsonString(s, i).text)
          ELSE [ok |-> FALSE])
  ELSE IF s[i] = "{"
    THEN JsonScan(s, i + 1, Append(stack, "{"), "keyOrClose", out \o <<"{">>)
  ELSE IF s[i] = "["
    THEN JsonScan(s, i + 1, Append(stack, "["), "valueOrClose", out \o <<"[">>)
  ELSE IF s[i] = "]" /\ expect = "valueOrClose"
    THEN JsonScan(s, i + 1, Pop(stack), AfterValue(Pop(stack)), out \o <<"]">>)
  ELSE IF JsonScalar(s, i).ok
    THEN JsonScan(s, JsonScalar(s, i).next, stack, AfterValue(stack),
                  out \o JsonScalar(s, i).text)
  ELSE [ok |-> FALSE]

\* JSON.stringify(JSON.parse(text))
JsonRoundTrip(text) == JsonScan(text, 1, <<>>, "value", <<>>)

-----------------------------------------------------------------------------
(* Headers of the Fetch standard: a map from lower-cased name to value.    *)

EmptyHeaders == [n \in {} |-> <<>>]

IsWhitespace(c) == c \in {" ", "\t", "\n", "\r"}

RECURSIVE TrimStart(_)
TrimStart(s) ==
  IF Len(s) > 0 /\ IsWhitespace(s[1]) THEN TrimStart(Tail(s)) ELSE s

RECURSIVE TrimEnd(_)
TrimEnd(s) ==
  IF Len(s) > 0 /\ IsWhitespace(s[Len(s)])
  THEN TrimEnd(SubSeq(s, 1, Len(s) - 1)) ELSE s

\* String.prototype.trim
Trim(s) == TrimEnd(TrimStart(s))

\* a header name is a non-empty HTTP token
HeaderNameValid(name) ==
  /\ Len(name) > 0
  /\ \A i \in 1..Len(name) :
       \/ IsAlpha(name[i]) \/ IsDigit(name[i])
       \/ name[i] \in {"!", "#", "$", "%", "&", "'", "*", "+", "-", ".",
                       "^", "_", "|", "~"}

\* a header value, once normalised, holds no NUL, CR or LF
HeaderValueValid(value) ==
  \A i \in 1..Len(Trim(value)) : Trim(value)[i] \notin {"\n", "\r"}

\* Headers.prototype.has
HeadersHas(h, name) == ToLowerCase(name) \in DOMAIN h

\* Headers.prototype.set, for a valid name and value
HeadersSet(h, name, value) ==
  [n \in DOMAIN h \cup {ToLowerCase(name)} |->
     IF n = ToLowerCase(name) THEN Trim(value) ELSE h[n]]

\* Headers.prototype.delete
HeadersDelete(h, name) ==
  [n \in DOMAIN h \ {ToLowerCase(name)} |-> h[n]]

-----------------------------------------------------------------------------
(* Header filtering and body coercion of the relay, src/routes/index.tsx   *)

H_connection == <<"c","o","n","n","e","c","t","i","o","n">>
H_keep_alive == <<"k","e","e","p","-","a","l","i","v","e">>
H_proxy_authenticate ==
  <<"p","r","o","x","y","-","a","u","t","h","e","n","t","i","c","a","t","e">>
H_proxy_authorization ==
  <<"p","r","o","x","y","-","a","u","t","h","o","r","i","z","a","t","i","o","n">>
H_te == <<"t","e">>
H_trailer == <<"t","r","a","i","l","e","r">>
H_transfer_encoding ==
  <<"t","r","a","n","s","f","e","r","-","e","n","c","o","d","i","n","g">>
H_upgrade == <<"u","p","g","r","a","d","e">>
H_host == <<"h","o","s","t">>
H_content_length ==
  <<"c","o","n","t","e","n","t","-","l","e","n","g","t","h">>
H_content_type == <<"c","o","n","t","e","n","t","-","t","y","p","e">>
H_set_cookie == <<"s","e","t","-","c","o","o","k","i","e">>
H_cache_control == <<"c","a","c","h","e","-","c","o","n","t","r","o","l">>
H_x_relay_target ==
  <<"x","-","r","e","l","a","y","-","t","a","r","g","e","t">>
H_location == <<"l","o","c","a","t","i","o","n">>
H_authorization ==
  <<"a","u","t","h","o","r","i","z","a","t","i","o","n">>
S_no_store == <<"n","o","-","s","t","o","r","e">>
S_application_json ==
  <<"a","p","p","l","i","c","a","t","i","o","n","/","j","s","o","n">>
S_GET == <<"G","E","T">>
S_HEAD == <<"H","E","A","D">>
S_POST == <<"P","O","S","T">>

\* isHopByHopHeader with host missing from the list
isHopByHopHeader_NoHost(headerName) ==
  LET h == ToLowerCase(Trim(headerName)) IN
  \/ h = H_connection
  \/ h = H_keep_alive
  \/ h = H_proxy_authenticate
  \/ h = H_proxy_authorization
  \/ h = H_te
  \/ h = H_trailer
  \/ h = H_transfer_encoding
  \/ h = H_upgrade
  \/ h = H_content_length

isHopByHopHeader(headerName) ==
  LET h == ToLowerCase(Trim(headerName)) IN
  \/ h = H_connection
  \/ h = H_keep_alive
  \/ h = H_proxy_authenticate
  \/ h = H_proxy_authorization
  \/ h = H_te
  \/ h = H_trailer
  \/ h = H_transfer_encoding
  \/ h = H_upgrade
  \/ h = H_host
  \/ h = H_content_length

RECURSIVE CopyCallerHeaders(_, _)
\* for (const [k, v] of Object.entries(relayReq.headers)) { if (!k) continue;
\*   if (isHopByHopHeader(k)) continue; upstreamHeaders.set(k, v) }
\* [ok |-> FALSE] when Headers.set throws a TypeError
CopyCallerHeaders(entries, upstreamHeaders) ==
  IF Len(entries) = 0 THEN [ok |-> TRUE, headers |-> upstreamHeaders]
  ELSE LET k == entries[1][1]
           v == entries[1][2]
       IN
       IF Len(k) = 0 THEN CopyCallerHeaders(Tail(entries), upstreamHeaders)
       ELSE IF isHopByHopHeader(k)
         THEN CopyCallerHeaders(Tail(entries), upstreamHeaders)
       ELSE IF ~HeaderNameValid(k) \/ ~HeaderValueValid(v) THEN [ok |-> FALSE]
       ELSE CopyCallerHeaders(Tail(entries), HeadersSet(upstreamHeaders, k, v))

\* InjectContentType without the test for a caller's content-type
InjectContentType_Overwrite(input, upstreamHeaders) ==
  IF input.contentType # Absent /\ Len(input.contentType) > 0
  THEN IF HeaderValueValid(input.contentType)
       THEN [ok |-> TRUE,
             headers |-> HeadersSet(upstreamHeaders, H_content_type,
                                    input.contentType)]
       ELSE [ok |-> FALSE]
  ELSE [ok |-> TRUE, headers |-> upstreamHeaders]

\* if (relayReq.contentType && !upstreamHeaders.has('content-type'))
\*   upstreamHeaders.set('content-type', relayReq.contentType)
InjectContentType(input, upstreamHeaders) ==
  IF input.contentType # Absent /\ Len(input.contentType) > 0
     /\ ~HeadersHas(upstreamHeaders, H_content_type)
  THEN IF HeaderValueValid(input.contentType)
       THEN [ok |-> TRUE,
             headers |-> HeadersSet(upstreamHeaders, H_content_type,
                                    input.contentType)]
       ELSE [ok |-> FALSE]
  ELSE [ok |-> TRUE, headers |-> upstreamHeaders]

\* coerceBody: [ok |-> FALSE] when JSON.parse throws
coerceBody(input) ==
  LET ct == ToLowerCase(IF input.contentType = Absent THEN <<>>
                        ELSE input.contentType)
      body == IF input.body = Absent THEN <<>> ELSE input.body
  IN
  IF Includes(ct, S_application_json)
  THEN (IF Len(body) > 0 THEN JsonRoundTrip(body)
        ELSE [ok |-> TRUE, text |-> <<"n","u","l","l">>])
  ELSE [ok |-> TRUE, text |-> body]

\* stripUnsafeResponseHeaders deleting set-cookie only
stripUnsafeResponseHeaders_CookieOnly(headers) ==
  HeadersDelete(headers, H_set_cookie)

\* stripUnsafeResponseHeaders
stripUnsafeResponseHeaders(headers) ==
  HeadersDelete(HeadersDelete(HeadersDelete(headers, H_set_cookie),
                              H_connection), H_transfer_encoding)

-----------------------------------------------------------------------------
(* The POST handler of /api/relay, src/routes/index.tsx, one request.      *)

NoResponse == [status |-> 0]

\* the model stops counting outbound requests of one relay request here
MaxCalls == 2

S_bearer == <<"B","e","a","r","e","r"," ","t">>
S_text_plain == <<"t","e","x","t","/","p","l","a","i","n">>
S_metadata_url == S_http \o S_sep \o S_169_254_169_254 \o <<"/">>

\* relayRequestSchema.safeParse(raw).success: raw is a JSON object, baseUrl
\* is a URL (new URL accepts it), method and path are non-empty
SchemaValid(raw) ==
  /\ raw.json
  /\ NewURL(raw.baseUrl, NoUrl).ok
  /\ Len(raw.method) >= 1
  /\ Len(raw.path) >= 1

\* Response.json({ error }, { status: 400, headers: { 'cache-control': 'no-store' } })
ErrorResponse(message) ==
  [status |-> 400, statusText |-> "", error |-> message,
   headers |-> HeadersSet(EmptyHeaders, H_cache_control, S_no_store)]

\* what the upstream may answer: a 200 with a cookie and its own cache and
\* relay-target headers, a 301 and a 307 with a Location, a 500, a 204 with
\* the three stripped headers beside headers that are kept
UpstreamResponses ==
  { [status |-> 200, statusText |-> "OK",
     headers |-> HeadersSet(HeadersSet(HeadersSet(HeadersSet(EmptyHeaders,
                   H_content_type, S_text_plain),
                   H_set_cookie, <<"a","=","b">>),
                   H_cache_control, <<"m","a","x","-","a","g","e","=","6","0">>),
                   H_x_relay_target, <<"s","p","o","o","f">>)],
    [status |-> 301, statusText |-> "Moved Permanently",
     headers |-> HeadersSet(EmptyHeaders, H_location, S_metadata_url)],
    [status |-> 307, statusText |-> "Temporary Redirect",
     headers |-> HeadersSet(HeadersSet(EmptyHeaders, H_location, <<"/","n","e","x","t">>),
                            H_connection, <<"c","l","o","s","e">>)],
    [status |-> 500, statusText |-> "Internal Server Error",
     headers |-> HeadersSet(EmptyHeaders, H_transfer_encoding,
                            <<"c","h","u","n","k","e","d">>)],
    [status |-> 204, statusText |-> "No Content",
     headers |-> HeadersSet(HeadersSet(HeadersSet(HeadersSet(HeadersSet(
                   EmptyHeaders,
                   H_set_cookie, <<"s","=","1">>),
                   H_connection, H_keep_alive),
                   H_transfer_encoding, <<"c","h","u","n","k","e","d">>),
                   H_keep_alive, <<"t","i","m","e","o","u","t","=","5">>),
                   H_content_length, <<"0">>)] }

IsRedirect(res) == res.status \in 300..399 /\ H_location \in DOMAIN res.headers

\* the upstream headers and body of the outbound call, [ok |-> FALSE] when
\* Headers.set or JSON.parse throws
OutboundCall(relayReq, targetUrl, redirect) ==
  LET Call(upstreamHeaders, method, body) ==
        IF ~upstreamHeaders.ok \/ ~body.ok THEN [ok |-> FALSE]
        ELSE [ok |-> TRUE, url |-> UrlToString(targetUrl), method |-> method,
              headers |-> upstreamHeaders.headers, body |-> body.text,
              redirect |-> redirect]
      Body(method) ==
        IF method \notin {S_GET, S_HEAD}
           /\ relayReq.body # Absent /\ Len(relayReq.body) > 0
        THEN coerceBody(relayReq) ELSE [ok |-> TRUE, text |-> Absent]
      WithMethod(upstreamHeaders, method) ==
        Call(upstreamHeaders, method, Body(method))
      Inject(copied) ==
        IF copied.ok THEN InjectContentType(relayReq, copied.headers)
        ELSE [ok |-> FALSE]
  IN WithMethod(Inject(CopyCallerHeaders(relayReq.headers, EmptyHeaders)),
                ToUpperCase(relayReq.method))

\* the outbound call with the redirect policy left at fetch's default
UpstreamRequest_Follow(relayReq, targetUrl) ==
  OutboundCall(relayReq, targetUrl, "follow")

\* fetch(targetUrl.toString(), { method, headers, body, redirect: 'manual' })
UpstreamRequest(relayReq, targetUrl) ==
  OutboundCall(relayReq, targetUrl, "manual")

\* new Response(upstreamRes.body, { status, statusText, headers })
RelayResponse(upstreamRes, targetUrl) ==
  [status |-> upstreamRes.status, statusText |-> upstreamRes.statusText,
   headers |-> HeadersSet(HeadersSet(stripUnsafeResponseHeaders(upstreamRes.headers),
                                     H_cache_control, S_no_store),
                          H_x_relay_target, UrlOrigin(targetUrl))]

-----------------------------------------------------------------------------
(* The values JSON.parse and YAML.parse produce, and the language's own     *)
(* operations on them.  A value is <<kind, content>>; an object's content   *)
(* is its entries <<key, value>> in insertion order.                        *)

JUndef == <<"undefined", 0>>

JNull == <<"null", 0>>

JStr(s) == <<"string", s>>

JNum(n) == <<"number", n>>

JBool(b) == <<"boolean", b>>

JArr(items) == <<"array", items>>

JObj(entries) == <<"object", entries>>

\* the completion of an evaluation that raised a TypeError
Threw == <<"threw", 0>>

\* typeof x
TypeOf(x) ==
  IF x[1] \in {"null", "array", "object"} THEN "object" ELSE x[1]

\* Boolean(x), and the test of if (x), !x, x && y
Truthy(x) ==
  CASE x[1] \in {"undefined", "null", "threw"} -> FALSE
    [] x[1] = "string" -> x[2] # <<>>
    [] x[1] = "number" -> x[2] # 0
    [] x[1] = "boolean" -> x[2]
    [] OTHER -> TRUE

\* Array.isArray(x)
IsArray(x) == x[1] = "array"

\* Object.entries(x) of an object or an array (own enumerable properties; an
\* array's keys are its indices written in decimal)
Entries(x) ==
  IF x[1] = "object" THEN x[2]
  ELSE IF x[1] = "array"
  THEN [i \in 1..Len(x[2]) |-> <<DecimalString(i - 1), x[2][i]>>]
  ELSE <<>>

\* x[k] and x.k: a TypeError on null and undefined, the own property of an
\* object or an array, undefined where there is none
Prop(x, k) ==
  IF x[1] \in {"undefined", "null", "threw"} THEN Threw
  ELSE LET At(es) ==
             IF \E i \in 1..Len(es) : es[i][1] = k
             THEN es[CHOOSE i \in 1..Len(es) :
                       es[i][1] = k /\ \A j \in (i + 1)..Len(es) : es[j][1] # k][2]
             ELSE JUndef
       IN At(Entries(x))

OptProp_Unguarded(x, k) == Prop(x, k)

\* x?.k: undefined on null and undefined, x.k otherwise
OptProp(x, k) ==
  IF x[1] \in {"undefined", "null"} THEN JUndef ELSE Prop(x, k)

-----------------------------------------------------------------------------
(* reduceOpenApiSpec and the functions it calls (src/lib/openapiShape.ts).  *)
(* A function's result is Threw when an access it makes raises.  The        *)
(* optional results (undefined or a value) stay <<kind, content>>: a hint   *)
(* has the kind "hint", a request body "body", a field list "fields".       *)

MaxBodyFields == 50

BearerHint == <<"hint", [kind |-> "bearer", name |-> <<>>]>>

ApiKeyHint(name) == <<"hint", [kind |-> "apiKey", name |-> name]>>

inferAuthHintFromScheme(scheme) ==
  IF ~Truthy(scheme) \/ TypeOf(scheme) # "object" THEN JUndef
  ELSE IF /\ Prop(scheme, <<"t","y","p","e">>) = JStr(<<"h","t","t","p">>)
          /\ Prop(scheme, <<"s","c","h","e","m","e">>) = JStr(<<"b","e","a","r","e","r">>)
  THEN BearerHint
  ELSE IF /\ Prop(scheme, <<"t","y","p","e">>) = JStr(<<"a","p","i","K","e","y">>)
          /\ Prop(scheme, <<"i","n">>) = JStr(<<"h","e","a","d","e","r">>)
          /\ TypeOf(Prop(scheme, <<"n","a","m","e">>)) = "string"
  THEN ApiKeyHint(Prop(scheme, <<"n","a","m","e">>)[2])
  ELSE JUndef

\* the first truthy inferAuthHintFromScheme over the schemes, in order
FirstHint(schemeList) ==
  IF \E i \in 1..Len(schemeList) : Truthy(inferAuthHintFromScheme(schemeList[i]))
  THEN inferAuthHintFromScheme(
         schemeList[CHOOSE i \in 1..Len(schemeList) :
                      /\ Truthy(inferAuthHintFromScheme(schemeList[i]))
                      /\ \A j \in 1..(i - 1) :
                           ~Truthy(inferAuthHintFromScheme(schemeList[j]))])
  ELSE JUndef

inferGlobalAuthHint(spec) ==
  LET Of(schemes) ==
        IF schemes = Threw THEN Threw
        ELSE IF ~Truthy(schemes) \/ TypeOf(schemes) # "object" THEN JUndef
        ELSE FirstHint([i \in 1..Len(Entries(schemes)) |-> Entries(schemes)[i][2]])
  IN Of(OptProp(OptProp(spec, <<"c","o","m","p","o","n","e","n","t","s">>), <<"s","e","c","u","r","i","t","y","S","c","h","e","m","e","s">>))

inferOpAuthHint(spec, op) ==
  LET Named(schemes, entry) ==
        IF ~Truthy(entry) \/ TypeOf(entry) # "object" THEN <<>>
        ELSE [k \in 1..Len(Entries(entry)) |-> Prop(schemes, Entries(entry)[k][1])]
      Of(schemes, security) ==
        IF schemes = Threw THEN Threw
        ELSE IF ~Truthy(schemes) \/ TypeOf(schemes) # "object" THEN JUndef
        ELSE IF security = Threw THEN Threw
        ELSE IF ~IsArray(security) THEN JUndef
        ELSE FirstHint(Join([i \in 1..Len(security[2]) |->
                               Named(schemes, security[2][i])], <<>>))
  IN Of(OptProp(OptProp(spec, <<"c","o","m","p","o","n","e","n","t","s">>), <<"s","e","c","u","r","i","t","y","S","c","h","e","m","e","s">>),
        OptProp(op, <<"s","e","c","u","r","i","t","y">>))

reduceObjectSchemaFields(schema) ==
  IF ~Truthy(schema) \/ TypeOf(schema) # "object" THEN JUndef
  ELSE IF Prop(schema, <<"t","y","p","e">>) # JStr(<<"o","b","j","e","c","t">>) THEN JUndef
  ELSE IF ~(Truthy(Prop(schema, <<"p","r","o","p","e","r","t","i","e","s">>))
            /\ TypeOf(Prop(schema, <<"p","r","o","p","e","r","t","i","e","s">>)) = "object")
  THEN JUndef
  ELSE LET Of(props, requiredList) ==
             LET Field(e) ==
                   LET ps == IF Truthy(e[2]) /\ TypeOf(e[2]) = "object"
                             THEN e[2] ELSE JObj(<<>>)
                   IN [name |-> e[1],
                       required |-> \E j \in 1..Len(requiredList) :
                                      requiredList[j] = JStr(e[1]),
                       type |-> IF TypeOf(Prop(ps, <<"t","y","p","e">>)) = "string"
                                THEN Prop(ps, <<"t","y","p","e">>) ELSE JUndef]
             IN IF Len(props) = 0 \/ Len(props) > MaxBodyFields THEN JUndef
                ELSE <<"fields", [i \in 1..Len(props) |-> Field(props[i])]>>
       IN Of(Entries(Prop(schema, <<"p","r","o","p","e","r","t","i","e","s">>)),
             IF IsArray(Prop(schema, <<"r","e","q","u","i","r","e","d">>))
             THEN Prop(schema, <<"r","e","q","u","i","r","e","d">>)[2] ELSE <<>>)

reduceRequestBody(requestBody) ==
  IF requestBody = Threw THEN Threw
  ELSE IF ~Truthy(requestBody) \/ TypeOf(requestBody) # "object" THEN JUndef
  ELSE LET Of(content) ==
             LET contentTypes == [i \in 1..Len(Entries(content)) |->
                                    Entries(content)[i][1]]
                 IsJson(ct) == Includes(ToLowerCase(ct), <<"j","s","o","n">>)
                 jsonType ==
                   IF TypeOf(Prop(content, <<"a","p","p","l","i","c","a","t","i","o","n","/","j","s","o","n">>)) = "object"
                   THEN JStr(<<"a","p","p","l","i","c","a","t","i","o","n","/","j","s","o","n">>)
                   ELSE IF \E i \in 1..Len(contentTypes) : IsJson(contentTypes[i])
                   THEN JStr(contentTypes[CHOOSE i \in 1..Len(contentTypes) :
                               /\ IsJson(contentTypes[i])
                               /\ \A j \in 1..(i - 1) : ~IsJson(contentTypes[j])])
                   ELSE JUndef
                 jsonContent == IF Truthy(jsonType) THEN Prop(content, jsonType[2])
                                ELSE JUndef
                 Reduced(schema, fields) ==
                   IF schema = Threw THEN Threw
                   ELSE <<"body",
                         [contentTypes |-> contentTypes,
                                fields |-> fields,
                                rawSchema |-> IF Truthy(fields) THEN JUndef
                                              ELSE schema]>>
             IN IF Len(contentTypes) = 0 THEN JUndef
                ELSE Reduced(OptProp(jsonContent, <<"s","c","h","e","m","a">>),
                             reduceObjectSchemaFields(OptProp(jsonContent, <<"s","c","h","e","m","a">>)))
       IN Of(IF Truthy(Prop(requestBody, <<"c","o","n","t","e","n","t">>))
                /\ TypeOf(Prop(requestBody, <<"c","o","n","t","e","n","t">>)) = "object"
             THEN Prop(requestBody, <<"c","o","n","t","e","n","t">>) ELSE JObj(<<>>))

ParamLocations == {<<"p","a","t","h">>, <<"q","u","e","r","y">>, <<"h","e","a","d","e","r">>}

\* Boolean(p.required) || loc === 'path'
ParameterRequired_AsDeclared(p, loc) == Truthy(Prop(p, <<"r","e","q","u","i","r","e","d">>))

ParameterRequired(p, loc) == Truthy(Prop(p, <<"r","e","q","u","i","r","e","d">>)) \/ loc = <<"p","a","t","h">>

\* the callback of params.map: a ParameterShape, or null for a parameter
\* that is dropped
ParameterOf(p) ==
  IF ~Truthy(p) \/ TypeOf(p) # "object" THEN JNull
  ELSE IF ~(Prop(p, <<"i","n">>)[1] = "string" /\ Prop(p, <<"i","n">>)[2] \in ParamLocations)
  THEN JNull
  ELSE IF ~(TypeOf(Prop(p, <<"n","a","m","e">>)) = "string" /\ Prop(p, <<"n","a","m","e">>)[2] # <<>>)
  THEN JNull
  ELSE LET Of(loc, name, schema) ==
             <<"parameter",
              [name |-> name,
                     in |-> loc,
                     required |-> ParameterRequired(p, loc),
                     schema |->
                       [type |-> IF TypeOf(Prop(schema, <<"t","y","p","e">>)) = "string"
                                 THEN Prop(schema, <<"t","y","p","e">>) ELSE JUndef,
                        format |-> IF TypeOf(Prop(schema, <<"f","o","r","m","a","t">>)) = "string"
                                   THEN Prop(schema, <<"f","o","r","m","a","t">>) ELSE JUndef,
                        enum |-> IF /\ IsArray(Prop(schema, <<"e","n","u","m">>))
                                    /\ \A i \in 1..Len(Prop(schema, <<"e","n","u","m">>)[2]) :
                                         TypeOf(Prop(schema, <<"e","n","u","m">>)[2][i]) = "string"
                                 THEN Prop(schema, <<"e","n","u","m">>) ELSE JUndef,
                        default |-> Prop(schema, <<"d","e","f","a","u","l","t">>)]]>>
       IN Of(Prop(p, <<"i","n">>)[2], Prop(p, <<"n","a","m","e">>)[2],
             IF Truthy(Prop(p, <<"s","c","h","e","m","a">>)) /\ TypeOf(Prop(p, <<"s","c","h","e","m","a">>)) = "object"
             THEN Prop(p, <<"s","c","h","e","m","a">>) ELSE JObj(<<>>))

collectParameters(pathItem, op) ==
  LET Of(fromItem, fromOp) ==
        IF fromItem = Threw \/ fromOp = Threw THEN Threw
        ELSE LET params == (IF IsArray(fromItem) THEN fromItem[2] ELSE <<>>)
                           \o (IF IsArray(fromOp) THEN fromOp[2] ELSE <<>>)
                 mapped == [i \in 1..Len(params) |-> ParameterOf(params[i])]
             IN <<"parameters",
                 [i \in 1..Len(SelectSeq(mapped, Truthy)) |->
                          SelectSeq(mapped, Truthy)[i][2]]>>
  IN Of(OptProp(pathItem, <<"p","a","r","a","m","e","t","e","r","s">>), OptProp(op, <<"p","a","r","a","m","e","t","e","r","s">>))

\* the printable ASCII characters in code-unit order (the grave accent left
\* out); a character's position is its order under <, > on strings
CodeUnitOrder ==
  <<" ","!","\"","#","$","%","&","'","(",")","*","+",",","-",".","/">>
  \o DigitChars \o <<":",";","<","=",">","?","@">> \o UpperChars
  \o <<"[","\\","]","^","_">> \o LowerChars \o <<"{","|","}","~">>

\* the same characters that are not letters, in the order of the root
\* collation: white space, punctuation, symbols, then the digits
CollationOrder ==
  <<" ","_","-",",",";",":","!","?",".","'","\"","(",")","[","]","{","}",
    "@","*","/","\\","&","#","%","^","+","<","=",">","|","~","$">>
  \o DigitChars

\* -1, 0 or 1: the order of two sequences of numbers, element by element,
\* a proper prefix first
LexCompare(wa, wb) ==
  LET n == IF Len(wa) < Len(wb) THEN Len(wa) ELSE Len(wb)
  IN IF \E i \in 1..n : wa[i] # wb[i]
     THEN LET At(k) == IF wa[k] < wb[k] THEN 0 - 1 ELSE 1
          IN At(CHOOSE i \in 1..n :
                  wa[i] # wb[i] /\ \A j \in 1..(i - 1) : wa[j] = wb[j])
     ELSE IF Len(wa) < Len(wb) THEN 0 - 1
     ELSE IF Len(wa) > Len(wb) THEN 1
     ELSE 0

\* a < b, a === b, a > b on strings: by code units
OrdinalCompare(a, b) ==
  LexCompare([i \in 1..Len(a) |-> IndexOfChar(CodeUnitOrder, a[i])],
             [i \in 1..Len(b) |-> IndexOfChar(CodeUnitOrder, b[i])])

OrdinalLess(a, b) == OrdinalCompare(a, b) < 0

localeCompare_Ordinal(a, b) == OrdinalCompare(a, b)

\* String.prototype.localeCompare with no locale and no options: the
\* collation of the default locale.  The strings differ first by their
\* letters and digits whatever the case (a letter's weight is its place in
\* the alphabet, after every other character), and only when those agree by
\* case, a lower-case letter before its upper-case one.
localeCompare(a, b) ==
  LET Primary(c) == IF IsAlpha(c)
                    THEN Len(CollationOrder) + IndexOfChar(LowerChars, LowerChar(c))
                    ELSE IndexOfChar(CollationOrder, c)
      Tertiary(c) == IF IndexOfChar(UpperChars, c) # 0 THEN 1 ELSE 0
      ByLetters == LexCompare([i \in 1..Len(a) |-> Primary(a[i])],
                              [i \in 1..Len(b) |-> Primary(b[i])])
  IN IF ByLetters # 0 THEN ByLetters
     ELSE LexCompare([i \in 1..Len(a) |-> Tertiary(a[i])],
                     [i \in 1..Len(b) |-> Tertiary(b[i])])

RECURSIVE SortByKey(_)
\* operations.sort((a, b) => a.key.localeCompare(b.key)): the sort is
\* stable, an operation goes after those that do not compare greater
SortByKey(ops) ==
  IF Len(ops) = 0 THEN <<>>
  ELSE LET Insert(sorted, x) ==
             LET k == Cardinality({i \in 1..Len(sorted) :
                                     localeCompare(sorted[i].key, x.key) <= 0})
             IN SubSeq(sorted, 1, k) \o <<x>> \o SubSeq(sorted, k + 1, Len(sorted))
       IN Insert(SortByKey(SubSeq(ops, 1, Len(ops) - 1)), ops[Len(ops)])

HttpMethods == <<<<"g","e","t">>, <<"p","o","s","t">>, <<"p","u","t">>, <<"p","a","t","c","h">>, <<"d","e","l","e","t","e">>, <<"o","p","t","i","o","n","s">>, <<"h","e","a","d">>>>

\* the body of the loop over the methods, for one path item and one method:
\* null when the method is skipped, the OperationShape pushed otherwise
OperationOf(spec, authHint, path, pathItem, method) ==
  LET Pushed(op, parameters, requestBody, opAuthHint) ==
        IF Threw \in {parameters, requestBody, opAuthHint,
                      OptProp(op, <<"s","u","m","m","a","r","y">>), OptProp(op, <<"d","e","s","c","r","i","p","t","i","o","n">>)}
        THEN Threw
        ELSE <<"operation",
              [key |-> ToUpperCase(method) \o <<" ">> \o path,
                     method |-> ToUpperCase(method),
                     path |-> path,
                     summary |-> IF TypeOf(OptProp(op, <<"s","u","m","m","a","r","y">>)) = "string"
                                 THEN Prop(op, <<"s","u","m","m","a","r","y">>) ELSE JUndef,
                     description |->
                       IF TypeOf(OptProp(op, <<"d","e","s","c","r","i","p","t","i","o","n">>)) = "string"
                       THEN Prop(op, <<"d","e","s","c","r","i","p","t","i","o","n">>) ELSE JUndef,
                     parameters |-> parameters[2],
                     requestBody |-> requestBody,
                     authHint |-> IF opAuthHint[1] \in {"undefined", "null"}
                                  THEN authHint ELSE opAuthHint]>>
  IN IF ~Truthy(Prop(pathItem, method)) THEN JNull
     ELSE Pushed(Prop(pathItem, method),
                 collectParameters(pathItem, Prop(pathItem, method)),
                 reduceRequestBody(OptProp(Prop(pathItem, method), <<"r","e","q","u","e","s","t","B","o","d","y">>)),
                 inferOpAuthHint(spec, Prop(pathItem, method)))

\* servers: the url of every entry of spec.servers that has a string one,
\* the empty ones filtered out
ServersOf(spec) ==
  LET Of(list) ==
        IF list = Threw THEN Threw
        ELSE IF ~IsArray(list) THEN JArr(<<>>)
        ELSE LET mapped == [i \in 1..Len(list[2]) |->
                              LET Url(u) == IF u = Threw THEN Threw
                                            ELSE IF TypeOf(u) = "string" THEN u
                                            ELSE JNull
                              IN Url(OptProp(list[2][i], <<"u","r","l">>))]
             IN IF \E i \in 1..Len(mapped) : mapped[i] = Threw THEN Threw
                ELSE JArr([i \in 1..Len(SelectSeq(mapped, Truthy)) |->
                             SelectSeq(mapped, Truthy)[i][2]])
  IN Of(OptProp(spec, <<"s","e","r","v","e","r","s">>))

reduceOpenApiSpec(spec) ==
  LET Of(servers, authHint, declared, title, version) ==
        IF Threw \in {servers, authHint, declared, title, version} THEN Threw
        ELSE LET paths == IF Truthy(declared) /\ TypeOf(declared) = "object"
                          THEN Entries(declared) ELSE <<>>
                 pushed == [i \in 1..(Len(paths) * Len(HttpMethods)) |->
                              LET At(e, method) ==
                                    IF ~Truthy(e[2]) \/ TypeOf(e[2]) # "object"
                                    THEN JNull
                                    ELSE OperationOf(spec, authHint, e[1], e[2], method)
                              IN At(paths[((i - 1) \div Len(HttpMethods)) + 1],
                                    HttpMethods[((i - 1) % Len(HttpMethods)) + 1])]
                 operations == SelectSeq(pushed, Truthy)
             IN IF \E i \in 1..Len(pushed) : pushed[i] = Threw THEN Threw
                ELSE <<"shape",
                      [title |-> IF TypeOf(title) = "string"
                                       THEN title ELSE JUndef,
                             version |-> IF TypeOf(version) = "string"
                                         THEN version ELSE JUndef,
                             servers |-> servers[2],
                             operations |->
                               SortByKey([i \in 1..Len(operations) |->
                                            operations[i][2]])]>>
  IN Of(ServersOf(spec), inferGlobalAuthHint(spec), OptProp(spec, <<"p","a","t","h","s">>),
        OptProp(OptProp(spec, <<"i","n","f","o">>), <<"t","i","t","l","e">>),
        OptProp(OptProp(spec, <<"i","n","f","o">>), <<"v","e","r","s","i","o","n">>))

ReduceIdle ==
  /\ dDoc = <<"undefined", 0>>
  /\ dShape = <<"undefined", 0>>
  /\ dPc = "idle"

StateIdle ==
  /\ sState = "none"
  /\ sToken = "none"
  /\ sDecoded = "none"
  /\ sPc = "idle"

GuardIdle ==
  /\ gInput = [scheme |-> <<>>, host |-> <<>>]
  /\ gUrl = NoUrl
  /\ gVerdict = "none"
  /\ gPc = "idle"

RelayIdle ==
  /\ rReq = [json |-> FALSE]
  /\ rPc = "idle"
  /\ rTarget = NoUrl
  /\ rChecked = {}
  /\ rCalls = <<>>
  /\ rUpstream = NoResponse
  /\ rResp = NoResponse

\* const raw = await request.json().catch(() => null); safeParse; 400
RelayValidate ==
  /\ rPc = "start"
  /\ IF SchemaValid(rReq)
     THEN rPc' = "validated" /\ rResp' = rResp
     ELSE rPc' = "done"
          /\ rResp' = ErrorResponse("Invalid relay request")
  /\ UNCHANGED <<rReq, rTarget, rChecked, rCalls, rUpstream>>
  /\ UNCHANGED <<guardVars, cacheVars, reduceVars, stateVars>>

\* try { targetUrl = buildTargetUrl(relayReq) } catch { 400 }
RelayBuildTarget ==
  /\ rPc = "validated"
  /\ \E url \in {buildTargetUrl(rReq)} :
       IF url.ok
       THEN rTarget' = url /\ rPc' = "built" /\ rResp' = rResp
       ELSE rTarget' = rTarget /\ rPc' = "done"
            /\ rResp' = ErrorResponse("Invalid URL")
  /\ UNCHANGED <<rReq, rChecked, rCalls, rUpstream>>
  /\ UNCHANGED <<guardVars, cacheVars, reduceVars, stateVars>>

\* RelayGuard with the verdict ignored
RelayGuard_Unchecked ==
  /\ rPc = "built"
  /\ rChecked' = rChecked
  /\ rPc' = "safe"
  /\ rResp' = rResp
  /\ UNCHANGED <<rReq, rTarget, rCalls, rUpstream>>
  /\ UNCHANGED <<guardVars, cacheVars, reduceVars, stateVars>>

\* if (!isSafeTarget(targetUrl)) return 400 'Blocked target host'
RelayGuard ==
  /\ rPc = "built"
  /\ IF isSafeTarget(rTarget)
     THEN rChecked' = rChecked \cup {UrlToString(rTarget)}
          /\ rPc' = "safe" /\ rResp' = rResp
     ELSE rChecked' = rChecked /\ rPc' = "done"
          /\ rResp' = ErrorResponse("Blocked target host")
  /\ UNCHANGED <<rReq, rTarget, rCalls, rUpstream>>
  /\ UNCHANGED <<guardVars, cacheVars, reduceVars, stateVars>>

\* the upstream headers, method and body, then fetch(targetUrl.toString(), ...):
\* the outbound request leaves; an exception of Headers.set or of coerceBody
\* is not caught by the handler
RelayFetch ==
  /\ rPc = "safe"
  /\ \E call \in {UpstreamRequest(rReq, rTarget)} :
       IF call.ok
       THEN rCalls' = Append(rCalls, call) /\ rPc' = "awaiting"
       ELSE rCalls' = rCalls /\ rPc' = "threw"
  /\ UNCHANGED <<rReq, rTarget, rChecked, rUpstream, rResp>>
  /\ UNCHANGED <<guardVars, cacheVars, reduceVars, stateVars>>

\* the upstream answers the last outbound request: fetch resolves with that
\* response, except that under redirect: 'follow' fetch itself requests the
\* Location of a 3xx answer
UpstreamRespond ==
  /\ rPc = "awaiting"
  /\ \E res \in UpstreamResponses :
       IF rCalls[Len(rCalls)].redirect = "follow" /\ IsRedirect(res)
          /\ Len(rCalls) < MaxCalls
       THEN /\ rCalls' = Append(rCalls,
                 [rCalls[Len(rCalls)] EXCEPT !.url = res.headers[H_location]])
            /\ UNCHANGED <<rPc, rUpstream>>
       ELSE /\ rUpstream' = res
            /\ rPc' = "received"
            /\ UNCHANGED rCalls
  /\ UNCHANGED <<rReq, rTarget, rChecked, rResp>>
  /\ UNCHANGED <<guardVars, cacheVars, reduceVars, stateVars>>

\* the upstream is unreachable: fetch rejects, and the handler does not catch it
UpstreamFail ==
  /\ rPc = "awaiting"
  /\ rPc' = "threw"
  /\ UNCHANGED <<rReq, rTarget, rChecked, rCalls, rUpstream, rResp>>
  /\ UNCHANGED <<guardVars, cacheVars, reduceVars, stateVars>>

\* UpstreamFail with the call issued again
UpstreamFail_Retry ==
  /\ rPc = "awaiting"
  /\ IF Len(rCalls) < MaxCalls
     THEN rCalls' = Append(rCalls, rCalls[Len(rCalls)]) /\ rPc' = rPc
     ELSE rCalls' = rCalls /\ rPc' = "threw"
  /\ UNCHANGED <<rReq, rTarget, rChecked, rUpstream, rResp>>
  /\ UNCHANGED <<guardVars, cacheVars, reduceVars, stateVars>>

\* copy the upstream headers, strip, force cache-control and x-relay-target,
\* return the upstream status and body
RelayRespond ==
  /\ rPc = "received"
  /\ rResp' = RelayResponse(rUpstream, rTarget)
  /\ rPc' = "done"
  /\ UNCHANGED <<rReq, rTarget, rChecked, rCalls, rUpstream>>
  /\ UNCHANGED <<guardVars, cacheVars, reduceVars, stateVars>>

-----------------------------------------------------------------------------
(* The spec-shape cache, src/lib/openapiShape.ts: fetchAndShapeOpenApi,    *)
(* readCache and writeCache, for overlapping calls in one process. A call  *)
(* is suspended at its awaits (cache.match, fetch, res.text, cache.put);   *)
(* the code between two awaits runs as one step.                           *)

\* cacheTtlSeconds as the spec-shape route passes it
CacheTtlSeconds == 60

\* ttlSeconds * 1000
MsPerSecond == 1000

\* calls of fetchAndShapeOpenApi in one run, which may overlap
MaxInFlight == 2

\* clock advances in one run
MaxTicks == 2

\* what the clock advances by: half the TTL, so that a lookup can fall
\* before, exactly at and after an entry's expiry
TickStep == (CacheTtlSeconds * MsPerSecond) \div 2

SpecUrls == {"specA", "specB"}

\* the documents a spec url may serve: two that parse and reduce, to
\* different shapes, a blank one and one that is neither JSON nor YAML
Documents == {"docA", "docB", "blank", "garbage"}

Slots == 1..MaxInFlight

\* a call: where it is suspended (pc), its url, when the cache tier it waits
\* for or was served by was asked (at, 0 once it fetches), and its outcome
IdleCall ==
  [pc |-> "idle", url |-> "", at |-> 0, shape |-> "", src |-> "", err |-> ""]

\* parseOpenApiText then reduceOpenApiSpec: the shape of a document, or the
\* error thrown
ShapeOf(text) ==
  CASE text = "blank" -> [ok |-> FALSE, err |-> "empty"]
    [] text = "garbage" -> [ok |-> FALSE, err |-> "parse"]
    [] text = "docA" -> [ok |-> TRUE, shape |-> "shapeA"]
    [] text = "docB" -> [ok |-> TRUE, shape |-> "shapeB"]

\* mem && mem.expiresAt > now, with >= for >
MemoryHit_Inclusive(cache, url, now) ==
  url \in DOMAIN cache /\ cache[url].expiresAt >= now

\* mem && mem.expiresAt > now
MemoryHit(cache, url, now) ==
  url \in DOMAIN cache /\ cache[url].expiresAt > now

\* memoryCache.set that keeps an entry already there
MemorySet_KeepFirst(cache, url, value, now, ttlSeconds) ==
  IF url \in DOMAIN cache THEN cache
  ELSE [u \in DOMAIN cache \cup {url} |->
          IF u = url
          THEN [value |-> value, expiresAt |-> now + ttlSeconds * MsPerSecond]
          ELSE cache[u]]

\* memoryCache.set(key.url, { value, expiresAt: now + ttlSeconds * 1000 })
MemorySet(cache, url, value, now, ttlSeconds) ==
  [u \in DOMAIN cache \cup {url} |->
     IF u = url
     THEN [value |-> value, expiresAt |-> now + ttlSeconds * MsPerSecond]
     ELSE cache[u]]

\* cache.match(key) that finds nothing
EdgeFresh_Never(cache, url, now) == FALSE

\* cache.match(key) of the Cache API: the stored response while it is fresh,
\* that is while its age is below its max-age
EdgeFresh(cache, url, now) ==
  url \in DOMAIN cache
  /\ now < cache[url].storedAt + cache[url].maxAge * MsPerSecond

\* cache.put(key, new Response(JSON.stringify(value),
\*   { headers: { 'cache-control': `public, max-age=${ttlSeconds}` } }))
EdgePut(cache, url, value, now, ttlSeconds) ==
  [u \in DOMAIN cache \cup {url} |->
     IF u = url
     THEN [body |-> value, storedAt |-> now, maxAge |-> ttlSeconds]
     ELSE cache[u]]

CacheIdle ==
  /\ cNow = 0
  /\ cTicks = 0
  /\ cEdge = FALSE
  /\ memoryCache = <<>>
  /\ edgeCache = <<>>
  /\ cReq = [p \in Slots |-> IdleCall]
  /\ cLast = <<>>
  /\ cReduced = {}

CacheInit ==
  /\ cNow = 0
  /\ cTicks = 0
  /\ cEdge \in BOOLEAN
  /\ memoryCache = <<>>
  /\ edgeCache = <<>>
  /\ cReq = [p \in Slots |-> IdleCall]
  /\ cLast = <<>>
  /\ cReduced = {}

\* Date.now() moves on
Tick ==
  /\ cTicks < MaxTicks
  /\ cNow' = cNow + TickStep
  /\ cTicks' = cTicks + 1
  /\ UNCHANGED <<cEdge, memoryCache, edgeCache, cReq, cLast, cReduced>>
  /\ UNCHANGED <<guardVars, relayVars, reduceVars, stateVars>>

\* fetchAndShapeOpenApi(url) up to its first await: readCache reads the local
\* tier; on a hit the call returns the value; on a miss it asks the shared
\* tier (cache.match) when there is one, and else fetches the document
CacheLookup(p, url) ==
  /\ cReq[p].pc = "idle"
  /\ cReq' = [cReq EXCEPT ![p] =
       [pc |-> IF MemoryHit(memoryCache, url, cNow) THEN "done"
               ELSE IF cEdge THEN "match" ELSE "fetch",
        url |-> url, at |-> cNow,
        shape |-> IF MemoryHit(memoryCache, url, cNow)
                  THEN memoryCache[url].value ELSE "",
        src |-> IF MemoryHit(memoryCache, url, cNow) THEN "local" ELSE "",
        err |-> ""]]
  /\ UNCHANGED <<cNow, cTicks, cEdge, memoryCache, edgeCache, cLast, cReduced>>
  /\ UNCHANGED <<guardVars, relayVars, reduceVars, stateVars>>

\* GET /api/spec-shape with no url parameter, or with one that is no URL:
\* querySchema refuses it and fetchAndShapeOpenApi is not called
QueryInvalid(p) ==
  /\ cReq[p].pc = "idle"
  /\ cReq' = [cReq EXCEPT ![p] = [@ EXCEPT !.pc = "failed", !.err = "url"]]
  /\ UNCHANGED <<cNow, cTicks, cEdge, memoryCache, edgeCache, cLast, cReduced>>
  /\ UNCHANGED <<guardVars, relayVars, reduceVars, stateVars>>

\* cache.match resolves: a fresh stored response is returned as the value,
\* anything else is a miss and the document is fetched
MatchResolve(p) ==
  /\ cReq[p].pc = "match"
  /\ cReq' = [cReq EXCEPT ![p] =
       IF EdgeFresh(edgeCache, cReq[p].url, cNow)
       THEN [@ EXCEPT !.pc = "done", !.at = cNow,
                      !.shape = edgeCache[cReq[p].url].body, !.src = "edge"]
       ELSE [@ EXCEPT !.pc = "fetch", !.at = cNow]]
  /\ UNCHANGED <<cNow, cTicks, cEdge, memoryCache, edgeCache, cLast, cReduced>>
  /\ UNCHANGED <<guardVars, relayVars, reduceVars, stateVars>>

\* cache.match rejects: readCache has no catch, the call rejects
MatchFail(p) ==
  /\ cReq[p].pc = "match"
  /\ cReq' = [cReq EXCEPT ![p] = [@ EXCEPT !.pc = "failed", !.err = "match", !.at = 0]]
  /\ UNCHANGED <<cNow, cTicks, cEdge, memoryCache, edgeCache, cLast, cReduced>>
  /\ UNCHANGED <<guardVars, relayVars, reduceVars, stateVars>>

\* fetch(parsedUrl) resolves with a 2xx response: res.text() is awaited
FetchOk(p) ==
  /\ cReq[p].pc = "fetch"
  /\ cReq' = [cReq EXCEPT ![p] = [@ EXCEPT !.pc = "text", !.at = 0]]
  /\ UNCHANGED <<cNow, cTicks, cEdge, memoryCache, edgeCache, cLast, cReduced>>
  /\ UNCHANGED <<guardVars, relayVars, reduceVars, stateVars>>

\* fetch rejects ("fetch"), or resolves with a status outside 2xx ("status"):
\* the call throws
FetchFail(p, why) ==
  /\ cReq[p].pc = "fetch"
  /\ cReq' = [cReq EXCEPT ![p] = [@ EXCEPT !.pc = "failed", !.err = why, !.at = 0]]
  /\ UNCHANGED <<cNow, cTicks, cEdge, memoryCache, edgeCache, cLast, cReduced>>
  /\ UNCHANGED <<guardVars, relayVars, reduceVars, stateVars>>

\* TextResolve with writeCache moved ahead of parseOpenApiText: the local
\* entry is set whatever the document is
TextResolve_WriteFirst(p, text) ==
  /\ cReq[p].pc = "text"
  /\ memoryCache' = MemorySet(memoryCache, cReq[p].url, text, cNow,
                              CacheTtlSeconds)
  /\ \E r \in {ShapeOf(text)} :
       IF r.ok
       THEN /\ cLast' = [u \in DOMAIN cLast \cup {cReq[p].url} |->
                          IF u = cReq[p].url
                          THEN [value |-> text, at |-> cNow]
                          ELSE cLast[u]]
            /\ cReduced' = cReduced \cup {cReq[p].url}
            /\ cReq' = [cReq EXCEPT ![p] =
                 [@ EXCEPT !.pc = IF cEdge THEN "put" ELSE "done",
                           !.shape = r.shape, !.src = "live"]]
       ELSE /\ cReq' = [cReq EXCEPT ![p] =
                 [@ EXCEPT !.pc = "failed", !.err = r.err]]
            /\ UNCHANGED <<cLast, cReduced>>
  /\ UNCHANGED <<cNow, cTicks, cEdge, edgeCache>>
  /\ UNCHANGED <<guardVars, relayVars, reduceVars, stateVars>>

\* res.text() resolves with the document: it is parsed and reduced, and
\* writeCache sets the local entry and, when there is a shared tier, starts
\* cache.put; a blank or unparsable document makes the call throw before
\* writeCache
TextResolve(p, text) ==
  /\ cReq[p].pc = "text"
  /\ \E r \in {ShapeOf(text)} :
       IF r.ok
       THEN /\ memoryCache' = MemorySet(memoryCache, cReq[p].url, r.shape, cNow,
                                        CacheTtlSeconds)
            /\ cLast' = [u \in DOMAIN cLast \cup {cReq[p].url} |->
                          IF u = cReq[p].url
                          THEN [value |-> r.shape, at |-> cNow]
                          ELSE cLast[u]]
            /\ cReduced' = cReduced \cup {cReq[p].url}
            /\ cReq' = [cReq EXCEPT ![p] =
                 [@ EXCEPT !.pc = IF cEdge THEN "put" ELSE "done",
                           !.shape = r.shape, !.src = "live"]]
       ELSE /\ cReq' = [cReq EXCEPT ![p] =
                 [@ EXCEPT !.pc = "failed", !.err = r.err]]
            /\ UNCHANGED <<memoryCache, cLast, cReduced>>
  /\ UNCHANGED <<cNow, cTicks, cEdge, edgeCache>>
  /\ UNCHANGED <<guardVars, relayVars, reduceVars, stateVars>>

\* cache.put resolves: the shared tier holds the value, the call returns it
PutResolve(p) ==
  /\ cReq[p].pc = "put"
  /\ edgeCache' = EdgePut(edgeCache, cReq[p].url, cReq[p].shape, cNow,
                          CacheTtlSeconds)
  /\ cReq' = [cReq EXCEPT ![p] = [@ EXCEPT !.pc = "done"]]
  /\ UNCHANGED <<cNow, cTicks, cEdge, memoryCache, cLast, cReduced>>
  /\ UNCHANGED <<guardVars, relayVars, reduceVars, stateVars>>

\* cache.put rejects: writeCache has no catch, the call rejects
PutFail(p) ==
  /\ cReq[p].pc = "put"
  /\ cReq' = [cReq EXCEPT ![p] = [@ EXCEPT !.pc = "failed", !.err = "put"]]
  /\ UNCHANGED <<cNow, cTicks, cEdge, memoryCache, edgeCache, cLast, cReduced>>
  /\ UNCHANGED <<guardVars, relayVars, reduceVars, stateVars>>

\* the failures fetchAndShapeOpenApi throws as a Response: new
\* Response(`Failed to fetch spec: ${res.status}`, { status: 400 }) and new
\* Response('Empty spec', { status: 400 })
ThrownAsResponse == {"status", "empty"}

\* what the GET handler of /api/spec-shape answers for a call that has ended:
\* the shape as JSON; the 400 of querySchema; a thrown Response as it is, a
\* text body; any other exception as { error: err.message } with 400
EndpointResponse(call) ==
  IF call.pc = "done"
  THEN [status |-> 200, json |-> TRUE, shape |-> call.shape, error |-> "",
        text |-> ""]
  ELSE IF call.err = "url"
  THEN [status |-> 400, json |-> TRUE, shape |-> "",
        error |-> "Missing or invalid url", text |-> ""]
  ELSE IF call.err \in ThrownAsResponse
  THEN [status |-> 400, json |-> FALSE, shape |-> "", error |-> "",
        text |-> IF call.err = "empty" THEN "Empty spec"
                 ELSE "Failed to fetch spec"]
  ELSE [status |-> 400, json |-> TRUE, shape |-> "", error |-> call.err,
        text |-> ""]

InitCache == CacheInit /\ GuardIdle /\ RelayIdle /\ ReduceIdle /\ StateIdle

NextCache ==
  \/ Tick
  \/ \E p \in Slots, url \in SpecUrls : CacheLookup(p, url)
  \/ \E p \in Slots : QueryInvalid(p)
  \/ \E p \in Slots : MatchResolve(p)
  \/ \E p \in Slots : MatchFail(p)
  \/ \E p \in Slots : FetchOk(p)
  \/ \E p \in Slots, why \in {"fetch", "status"} : FetchFail(p, why)
  \/ \E p \in Slots, text \in Documents : TextResolve(p, text)
  \/ \E p \in Slots : PutResolve(p)
  \/ \E p \in Slots : PutFail(p)

SpecCache == InitCache /\ [][NextCache]_vars

-----------------------------------------------------------------------------
(* The relay requests tried. One request varies the URL parts, or the      *)
(* headers, or the method and body, around the request of the spec's       *)
(* example.                                                               *)

S_evil == <<"e","v","i","l",".","e","x","a","m","p","l","e">>
S_id == <<"i","d">>
S_users_id == <<"/","u","s","e","r","s","/","{","i","d","}">>
S_10_1_2_3 == <<"1","0",".","1",".","2",".","3">>

BaseUrls ==
  { S_https \o S_sep \o S_example,
    S_https \o S_sep \o S_example \o <<"/","v","1","/","?","k","=","1">>,
    S_http \o S_sep \o <<"u",":","p","@">> \o S_example \o <<":","8","0","8","0">>,
    S_http \o S_sep \o S_10_1_2_3,
    S_http \o S_sep \o S_localhost \o <<":","3","0","0","0">>,
    S_http \o S_sep \o <<"[",":",":","1","]">>,
    S_ftp \o S_sep \o S_example,
    <<"n","o","t"," ","a"," ","u","r","l">> }

PathTemplates ==
  { S_users_id,
    <<"u","s","e","r","s","/","{","i","d","}","/","{","x","}">>,
    <<"/","a","/",".",".","/","{","i","d">>,
    <<"/","/">> \o S_evil \o <<"/","x">>,
    <<"\\","\\">> \o S_10_1_2_3 \o <<"\\","x">>,
    S_http \o S_sep \o S_127_0_0_1 \o <<"/">>,
    S_https \o <<":">> \o S_evil,
    <<"/","/">>,
    <<"?","k","=","{","i","d","}">>,
    <<"/","x","/","{","c","o","n","s","t","r","u","c","t","o","r","}">> }

PathParamMaps ==
  { <<>>,
    << <<S_id, <<"7"," ","8">>>> >>,
    << <<S_id, <<"/","/">> \o S_evil>> >> }

QueryParamMaps ==
  { <<>>,
    << <<<<"a","c","t","i","v","e">>, <<"t","r","u","e">>>> >>,
    << <<<<"k">>, <<"a"," ","b">>>> >> }

ExampleRequest ==
  [json |-> TRUE,
   baseUrl |-> S_https \o S_sep \o S_example,
   method |-> S_GET,
   path |-> S_users_id,
   pathParams |-> << <<S_id, <<"7"," ","8">>>> >>,
   queryParams |-> << <<<<"a","c","t","i","v","e">>, <<"t","r","u","e">>>> >>,
   headers |-> <<>>,
   contentType |-> Absent,
   body |-> Absent]

UrlRequests ==
  { [ExampleRequest EXCEPT !.baseUrl = b, !.path = p, !.pathParams = pp,
                           !.queryParams = qp] :
      b \in BaseUrls, p \in PathTemplates, pp \in PathParamMaps,
      qp \in QueryParamMaps }

\* the most entries a generated header map has
MaxHeaders == 2

\* header entries: stripped names in several letter cases and with blanks
\* around them, names that differ only in case, an empty name, a name that
\* is no HTTP token, a value with blanks around it
HeaderPool ==
  { <<<<"H","o","s","t">>, <<"x">>>>,
    <<<<"A","u","t","h","o","r","i","z","a","t","i","o","n">>, S_bearer>>,
    <<<<"C","o","n","n","e","c","t","i","o","n">>, H_keep_alive>>,
    <<<<"x","-","a">>, <<"1">>>>,
    <<<<"X","-","A">>, <<"2">>>>,
    <<<<" ","U","p","g","r","a","d","e"," ">>, <<"h","2">>>>,
    <<<<>>, <<"e">>>>,
    <<<<"b","a","d"," ","n","a","m","e">>, <<"v">>>>,
    <<<<"X","-","B">>, <<" ","v"," ">>>>,
    <<<<"C","o","n","t","e","n","t","-","T","y","p","e">>, S_text_plain>> }

HopByHopNames ==
  { H_connection, H_keep_alive, H_proxy_authenticate, H_proxy_authorization,
    H_te, H_trailer, H_transfer_encoding, H_upgrade, H_host, H_content_length }

\* maps of at most n entries of the pool, keys distinct, in every order
RECURSIVE HeaderMapsUpTo(_)
HeaderMapsUpTo(n) ==
  IF n = 0 THEN {<<>>}
  ELSE LET smaller == HeaderMapsUpTo(n - 1) IN
       smaller \cup
       { Append(m, e) : m \in {x \in smaller : Len(x) = n - 1},
                        e \in HeaderPool }

DistinctKeys(m) ==
  \A i, j \in 1..Len(m) : i # j => m[i][1] # m[j][1]

SpecExampleHeaders ==
  << <<<<"H","o","s","t">>, <<"x">>>>,
     <<<<"A","u","t","h","o","r","i","z","a","t","i","o","n">>, S_bearer>>,
     <<<<"C","o","n","n","e","c","t","i","o","n">>, H_keep_alive>> >>

HeaderMaps ==
  {m \in HeaderMapsUpTo(MaxHeaders) : DistinctKeys(m)}
  \cup {SpecExampleHeaders}
  \cup { << <<n, <<"v">>>> >> : n \in HopByHopNames }
  \cup { << <<ToUpperCase(n), <<"v">>>>, <<<<"x","-","a">>, <<"1">>>> >> :
           n \in HopByHopNames }

ContentTypes ==
  { Absent, S_application_json, S_text_plain,
    <<"A","p","p","l","i","c","a","t","i","o","n","/","J","S","O","N">>,
    <<"a","p","p","l","i","c","a","t","i","o","n","/","v","n","d",".",
      "a","p","i","+","j","s","o","n">> }

HeaderRequests ==
  { [ExampleRequest EXCEPT !.headers = h, !.contentType = ct] :
      h \in HeaderMaps, ct \in {Absent, S_application_json} }

Methods == {S_GET, <<"g","e","t">>, <<"h","e","a","d">>, S_POST, <<"p","u","t">>}

Bodies ==
  { Absent, <<>>,
    <<"{"," ","\"","a","\""," ",":"," ","1"," ","}">>,
    <<"[","1",","," ","t","r","u","e","]">>,
    <<"{","b","a","d">>,
    <<"h","e","l","l","o">> }

BodyRequests ==
  { [ExampleRequest EXCEPT !.method = m, !.body = b, !.contentType = ct,
                           !.headers = h] :
      m \in Methods, b \in Bodies, ct \in ContentTypes,
      h \in { <<>>,
              << <<<<"C","o","n","t","e","n","t","-","T","y","p","e">>,
                   S_application_json>> >> } }

\* contentType as a caller may supply it: left out, empty, plain, with blanks
\* around it, blanks only
SuppliedContentTypes ==
  { Absent, <<>>, S_application_json,
    <<" ","a","p","p","l","i","c","a","t","i","o","n","/","j","s","o","n"," ">>,
    <<" "," ">> }

\* caller header maps without and with a content-type header, its name in
\* several letter cases, its value with blanks around it, two names that
\* differ only in letter case
ContentTypeHeaderMaps ==
  { <<>>,
    << <<<<"x","-","a">>, <<"1">>>> >>,
    << <<<<"c","o","n","t","e","n","t","-","t","y","p","e">>, S_text_plain>> >>,
    << <<<<"C","O","N","T","E","N","T","-","T","Y","P","E">>, <<" ","t","e","x","t","/","x","m","l"," ">>>> >>,
    << <<<<"C","o","n","t","e","n","t","-","T","y","p","e">>, S_text_plain>>, <<<<"c","o","n","t","e","n","t","-","t","y","p","e">>, <<"t","e","x","t","/","x","m","l">>>> >>,
    << <<<<"C","o","n","t","e","n","t","-","T","y","p","e">>, <<>>>> >> }

ContentTypeRequests ==
  { [ExampleRequest EXCEPT !.method = S_POST,
                           !.body = <<"{","\"","a","\"",":","1","}">>,
                           !.contentType = ct, !.headers = h] :
      ct \in SuppliedContentTypes, h \in ContentTypeHeaderMaps }

\* requests the schema refuses: no JSON object, an empty method, an empty path
MalformedRequests ==
  { [ExampleRequest EXCEPT !.json = FALSE],
    [ExampleRequest EXCEPT !.method = <<>>],
    [ExampleRequest EXCEPT !.path = <<>>] }

RelayRequests ==
  UrlRequests \cup HeaderRequests \cup BodyRequests \cup ContentTypeRequests
  \cup MalformedRequests

RelayInit ==
  /\ rReq \in RelayRequests
  /\ rPc = "start"
  /\ rTarget = NoUrl
  /\ rChecked = {}
  /\ rCalls = <<>>
  /\ rUpstream = NoResponse
  /\ rResp = NoResponse

InitRelay == RelayInit /\ GuardIdle /\ CacheIdle /\ ReduceIdle /\ StateIdle

NextRelay ==
  \/ RelayValidate
  \/ RelayBuildTarget
  \/ RelayGuard
  \/ RelayFetch
  \/ UpstreamRespond
  \/ UpstreamFail
  \/ RelayRespond

SpecRelay == InitRelay /\ [][NextRelay]_vars

-----------------------------------------------------------------------------
(* The host safety guard on its own: new URL(text), then isSafeTarget.     *)

\* the third and fourth octets of the dotted quads tried range over 0..MaxLowOctet
MaxLowOctet == 1

\* first octets around 10, 127, 169, 172, 192, and second octets around
\* 16..31, 168 and 254
FirstOctets == {9, 10, 11, 127, 169, 171, 172, 173, 191, 192, 193}
SecondOctets == {0, 15, 16, 17, 30, 31, 32, 167, 168, 169, 254}

QuadOctets ==
  {<<a, b, c, d>> : a \in FirstOctets, b \in SecondOctets,
                    c \in 0..MaxLowOctet, d \in 0..MaxLowOctet}

NamedHosts ==
  { S_localhost,
    <<"L","O","C","A","L","H","O","S","T">>,
    <<"L","o","c","a","l","H","o","s","t">>,
    <<"a">> \o S_dot_localhost,
    <<"A",".","L","O","C","A","L","H","O","S","T">>,
    <<"n","o","t">> \o S_localhost,
    S_localhost \o <<".","c","o","m">>,
    S_localhost \o <<".">>,
    S_example,
    <<"A","P","I",".","E","x","a","m","p","l","e",".","c","o","m">>,
    <<"[",":",":","1","]">>,
    <<"[","f","d","0","0",":",":","1","]">>,
    S_0_0_0_0,
    <<"0">>,
    S_127_0_0_1,
    <<"1","2","7",".","1">>,
    <<"0","1","7","7",".","0",".","0",".","1">>,
    <<"1","2","7",".","0",".","0",".","2">>,
    S_169_254_169_254,
    <<"1","6","9",".","2","5","4",".","1","6","9",".","2","5","3">>,
    <<"1","0",".","1",".","2",".","3">>,
    <<"1","0",".","1">>,
    <<"0","1","0",".","0",".","0",".","1">>,
    <<"1","9","2",".","1","6","8",".","1",".","1">>,
    <<"1","7","2",".","2","0",".","0",".","5">>,
    <<"1",".","2",".","3",".","4",".","5">>,
    <<"a"," ","b">>,
    <<>> }

GuardHosts == NamedHosts \cup {DottedQuad(o) : o \in QuadOctets}

GuardSchemes == {S_http, S_https, S_ftp, <<"H","T","T","P">>}

GuardInit ==
  /\ gInput \in [scheme : GuardSchemes, host : GuardHosts]
  /\ gUrl = NoUrl
  /\ gVerdict = "none"
  /\ gPc = "start"

\* new URL("<scheme>://<host>/")
GuardParse ==
  /\ gPc = "start"
  /\ gUrl' = NewURL(gInput.scheme \o S_sep \o gInput.host \o <<"/">>, NoUrl)
  /\ gPc' = IF gUrl'.ok THEN "parsed" ELSE "invalid"
  /\ UNCHANGED <<gInput, gVerdict>>
  /\ UNCHANGED <<relayVars, cacheVars, reduceVars, stateVars>>

\* isSafeTarget(url)
GuardCheck ==
  /\ gPc = "parsed"
  /\ gVerdict' = isSafeTarget(gUrl)
  /\ gPc' = "done"
  /\ UNCHANGED <<gInput, gUrl>>
  /\ UNCHANGED <<relayVars, cacheVars, reduceVars, stateVars>>

InitGuard == GuardInit /\ RelayIdle /\ CacheIdle /\ ReduceIdle /\ StateIdle

NextGuard == GuardParse \/ GuardCheck

SpecGuard == InitGuard /\ [][NextGuard]_vars

-----------------------------------------------------------------------------
(* Claims about the host safety guard *)

\* the hostname is the IPv6 address addr as the URL parser exposes it
IsIpv6Host(hostname, addr) == hostname = <<"[">> \o addr \o <<"]">>

\* the hosts the guard is said to deny one by one
IndividuallyDenied(hostname) ==
  \/ hostname \in {S_0_0_0_0, S_127_0_0_1, S_169_254_169_254}
  \/ hostname = S_ipv6_loopback
  \/ IsIpv6Host(hostname, S_ipv6_loopback)

LocalhostName(hostname) ==
  \/ ToLowerCase(hostname) = S_localhost
  \/ EndsWith(ToLowerCase(hostname), S_dot_localhost)

\* C2: isSafeTarget returns false whenever the scheme is neither http nor
\* https, or the hostname is localhost or ends with .localhost (in any letter
\* case), or the hostname is 0.0.0.0, 127.0.0.1, ::1 or 169.254.169.254, for
\* the hostname as the URL parser exposes it (http://[::1]/ included).
C2_DeniedHostsRejected ==
  gPc = "done" =>
    ( ( \/ gUrl.protocol \notin {P_http, P_https}
        \/ LocalhostName(gUrl.hostname)
        \/ IndividuallyDenied(gUrl.hostname) )
      => gVerdict = FALSE )

\* C2 without the IPv6 loopback: what the guard does reject
C2_DeniedExceptIpv6Rejected ==
  gPc = "done" =>
    ( ( \/ gUrl.protocol \notin {P_http, P_https}
        \/ LocalhostName(gUrl.hostname)
        \/ gUrl.hostname \in {S_0_0_0_0, S_127_0_0_1, S_169_254_169_254} )
      => gVerdict = FALSE )

\* the hostname is a canonical dotted quad a.b.c.d
IsIpv4Literal(hostname) ==
  /\ Len(hostname) > 0
  /\ \A i \in 1..Len(hostname) : IsDigit(hostname[i]) \/ hostname[i] = "."
  /\ Ipv4Octets(hostname) # <<>>
  /\ DottedQuad(Ipv4Octets(hostname)) = hostname

\* 10.0.0.0/8, 192.168.0.0/16, 172.16.0.0/12 by the first two octets
InPrivateRange(a, b) ==
  a = 10 \/ (a = 192 /\ b = 168) \/ (a = 172 /\ 16 <= b /\ b <= 31)

\* C3: for an http/https URL whose hostname is a dotted quad a.b.c.d that is
\* not individually denied, isSafeTarget returns false iff a = 10, or a = 192
\* and b = 168, or a = 172 and 16 <= b <= 31; a hostname that is no IP
\* address and is outside the deny-list is accepted.
C3_PrivateRangesExact ==
  (gPc = "done" /\ gUrl.protocol \in {P_http, P_https}) =>
    IF IsIpv4Literal(gUrl.hostname)
    THEN IndividuallyDenied(gUrl.hostname)
         \/ ( gVerdict = FALSE
              <=> InPrivateRange(Ipv4Octets(gUrl.hostname)[1],
                                 Ipv4Octets(gUrl.hostname)[2]) )
    ELSE ( LocalhostName(gUrl.hostname) \/ gUrl.hostname[1] = "[" )
         \/ gVerdict = TRUE

\* 172.31.0.1, the last /16 of 172.16.0.0/12, has been rejected
C3_Witness ==
  /\ gPc = "done"
  /\ gUrl.protocol = P_https
  /\ gUrl.hostname = DottedQuad(<<172, 31, 0, 1>>)
  /\ gVerdict = FALSE

\* 172.32.0.1, just above the range, has been accepted
C3_WitnessAbove ==
  /\ gPc = "done"
  /\ gUrl.hostname = DottedQuad(<<172, 32, 0, 1>>)
  /\ gVerdict = TRUE

-----------------------------------------------------------------------------
(* Claims about the relay handler *)

\* the request fails schema validation, or its target URL cannot be built,
\* or isSafeTarget returns false for the built target URL
RelayRefuses(req) ==
  \/ ~SchemaValid(req)
  \/ ~buildTargetUrl(req).ok
  \/ ~isSafeTarget(buildTargetUrl(req))

\* C1: a request that fails schema validation, whose base URL does not parse
\* or whose built target isSafeTarget refuses is answered with a 400 and no
\* outbound fetch is made for it; every URL fetched is one isSafeTarget has
\* returned true for.
C1_NoFetchBeforeGuard ==
  /\ \A i \in 1..Len(rCalls) : rCalls[i].url \in rChecked
  /\ (rPc # "idle" /\ RelayRefuses(rReq)) =>
       /\ rCalls = <<>>
       /\ rPc \in {"start", "validated", "built", "done"}
       /\ rPc = "done" => rResp.status = 400

\* a request to a private address has been answered 400 with nothing fetched
C1_Witness ==
  /\ rPc = "done"
  /\ rResp.status = 400
  /\ "error" \in DOMAIN rResp
  /\ rResp.error = "Blocked target host"
  /\ rTarget.ok
  /\ rTarget.hostname = S_10_1_2_3
  /\ rCalls = <<>>

\* an outbound request has been made after the guard accepted its URL
C1_WitnessFetched ==
  /\ Len(rCalls) = 1
  /\ rCalls[1].url \in rChecked

\* the base URL of the request is well formed and the guard accepts it
PublicBase(req) ==
  /\ NewURL(req.baseUrl, NoUrl).ok
  /\ isSafeTarget(NewURL(req.baseUrl, NoUrl))

\* C4: for every schema-valid request whose baseUrl is public and well
\* formed, whatever the path template and the parameter maps, isSafeTarget
\* accepts the built target and the host of the built URL is the host of
\* baseUrl.
C4_HostIsBaseHost ==
  (rPc \in {"built", "safe", "awaiting", "received", "done", "threw"}
   /\ SchemaValid(rReq) /\ PublicBase(rReq) /\ rTarget.ok) =>
    /\ isSafeTarget(rTarget)
    /\ UrlHost(rTarget) = UrlHost(NewURL(rReq.baseUrl, NoUrl))

\* C4, second half only: a request with a public base URL is never sent to
\* another host
C4_NeverFetchedFromOtherHost ==
  (Len(rCalls) >= 1 /\ PublicBase(rReq)) =>
    UrlHost(rTarget) = UrlHost(NewURL(rReq.baseUrl, NoUrl))

\* C5: a relay request causes at most one outbound call; a 3xx answer of the
\* upstream is returned with its status and Location unchanged and is not
\* followed; a failed upstream call is not retried.
C5_AtMostOneCall ==
  /\ Len(rCalls) <= 1
  /\ rPc \in {"threw", "received", "done"} => Len(rCalls) <= 1
  /\ (rPc = "done" /\ rUpstream.status \in 300..399) =>
       /\ rResp.status = rUpstream.status
       /\ H_location \in DOMAIN rResp.headers
       /\ rResp.headers[H_location] = rUpstream.headers[H_location]

\* a 301 of the upstream has been returned to the caller after one call
C5_Witness ==
  /\ rPc = "done"
  /\ rUpstream.status = 301
  /\ rResp.status = 301
  /\ rResp.headers[H_location] = S_metadata_url
  /\ Len(rCalls) = 1

\* the upstream call has failed after one call
C5_WitnessFailed == rPc = "threw" /\ Len(rCalls) = 1

\* the headers of the outbound request that came from the caller's header
\* map: content-type is left out when the relay injected it from contentType
SentCallerHeaders ==
  LET sent == rCalls[1].headers
      callerHasContentType ==
        \E i \in 1..Len(rReq.headers) :
          ToLowerCase(Trim(rReq.headers[i][1])) = H_content_type
  IN IF callerHasContentType THEN DOMAIN sent ELSE DOMAIN sent \ {H_content_type}

\* C6: the caller headers forwarded upstream are exactly the caller's
\* headers whose name, compared case-insensitively, is not one of the ten
\* hop-by-hop names; none of the ten is sent, every other caller header is
\* sent with its value unchanged.
C6_ForwardedExactly ==
  Len(rCalls) >= 1 =>
    /\ \A n \in SentCallerHeaders :
         /\ n \notin HopByHopNames
         /\ \E i \in 1..Len(rReq.headers) : ToLowerCase(rReq.headers[i][1]) = n
    /\ \A i \in 1..Len(rReq.headers) :
         ToLowerCase(rReq.headers[i][1]) \notin HopByHopNames =>
           /\ ToLowerCase(rReq.headers[i][1]) \in DOMAIN rCalls[1].headers
           /\ rCalls[1].headers[ToLowerCase(rReq.headers[i][1])]
                = rReq.headers[i][2]

\* the caller header is one the relay forwards: its name is not empty and,
\* trimmed and lower-cased, is not a hop-by-hop name
Forwardable(name) ==
  Len(name) > 0 /\ ToLowerCase(Trim(name)) \notin HopByHopNames

\* the last forwardable entry of the caller's map whose lower-cased name is n
LastNamed(entries, n) ==
  CHOOSE i \in 1..Len(entries) :
    /\ Forwardable(entries[i][1]) /\ ToLowerCase(entries[i][1]) = n
    /\ \A j \in (i + 1)..Len(entries) :
         ~(Forwardable(entries[j][1]) /\ ToLowerCase(entries[j][1]) = n)

\* C6 as amended: when the outbound call is made, the caller headers sent are
\* exactly those whose name is not empty and, trimmed and compared
\* case-insensitively, is not one of the ten names; names are sent
\* lower-cased, so of several names that differ only in letter case the last
\* one's value is sent; a value is sent without the white space around it.
C6_ForwardedExactlyTrimmed ==
  Len(rCalls) >= 1 =>
    /\ \A n \in SentCallerHeaders :
         /\ n \notin HopByHopNames
         /\ \E i \in 1..Len(rReq.headers) :
              Forwardable(rReq.headers[i][1])
              /\ ToLowerCase(rReq.headers[i][1]) = n
    /\ \A i \in 1..Len(rReq.headers) :
         Forwardable(rReq.headers[i][1]) =>
           /\ ToLowerCase(rReq.headers[i][1]) \in DOMAIN rCalls[1].headers
           /\ rCalls[1].headers[ToLowerCase(rReq.headers[i][1])]
                = Trim(rReq.headers[LastNamed(rReq.headers,
                                              ToLowerCase(rReq.headers[i][1]))][2])

\* {Host, Authorization, Connection} has been forwarded as {authorization}
C6_Witness ==
  /\ Len(rCalls) = 1
  /\ rReq.headers = SpecExampleHeaders
  /\ rReq.contentType = Absent
  /\ DOMAIN rCalls[1].headers = {H_authorization}
  /\ rCalls[1].headers[H_authorization] = S_bearer

-----------------------------------------------------------------------------
(* Claims about the spec-shape cache, checked under SpecCache.             *)

TtlMs == CacheTtlSeconds * MsPerSecond

\* the step is a lookup of the local tier by call p
LocalLookupStep(p) ==
  /\ cReq[p].pc = "idle"
  /\ cReq'[p].pc # "idle"
  /\ cReq'[p].err # "url"

\* the step is the answer of the shared tier to call p
EdgeLookupStep(p) ==
  /\ cReq[p].pc = "match"
  /\ cReq'[p].pc \in {"done", "fetch"}

C7_WitnessAtExpiry ==
  \E p \in Slots :
    /\ cReq[p].pc = "fetch"
    /\ cReq[p].url \in DOMAIN memoryCache
    /\ cReq[p].at = memoryCache[cReq[p].url].expiresAt

\* a lookup the local tier no longer served was served by the shared tier
C7_WitnessEdge ==
  \E p \in Slots :
    /\ cReq[p].pc = "done"
    /\ cReq[p].src = "edge"
    /\ cReq[p].url \in DOMAIN memoryCache
    /\ cReq[p].at >= memoryCache[cReq[p].url].expiresAt

\* C8: the shared tier is best effort: no call fails because caches.default
\* is missing, or because its match or its put failed; such a call returns
\* the shape it fetched and has set the local entry.
C8_SharedTierBestEffort ==
  \A p \in Slots :
    /\ cReq[p].pc = "failed" => cReq[p].err \notin {"match", "put"}
    /\ (~cEdge /\ cReq[p].pc = "done" /\ cReq[p].src = "live") =>
         cReq[p].url \in DOMAIN memoryCache

\* what holds of the code: without a shared tier a call that fetched returns
\* its shape with the local entry set, and a call whose put failed has set the
\* local entry (and rejects)
C8_LocalTierUpdated ==
  \A p \in Slots :
    ((cReq[p].pc = "done" /\ cReq[p].src = "live")
       \/ (cReq[p].pc = "failed" /\ cReq[p].err = "put")) =>
      cReq[p].url \in DOMAIN memoryCache

\* a call rejected because cache.match rejected
C8_MatchFailed ==
  \E p \in Slots : cReq[p].pc = "failed" /\ cReq[p].err = "match"

\* a call rejected because cache.put rejected, after the local entry was set
C8_PutFailed ==
  \E p \in Slots :
    /\ cReq[p].pc = "failed"
    /\ cReq[p].err = "put"
    /\ cReq[p].url \in DOMAIN memoryCache

FetchErrors == {"fetch", "status", "empty", "parse"}

\* C9: no tier holds an entry for a url unless a call for that url fetched a
\* 2xx document, parsed it and reduced it; a call that fails to fetch, gets a
\* status outside 2xx, or gets a blank or unparsable document leaves both
\* tiers as they were.
C9_NoNegativeCaching ==
  /\ [](DOMAIN memoryCache \cup DOMAIN edgeCache \subseteq cReduced)
  /\ [][\A p \in Slots :
          (/\ cReq[p].pc # "failed"
           /\ cReq'[p].pc = "failed"
           /\ cReq'[p].err \in FetchErrors) =>
            /\ memoryCache' = memoryCache
            /\ edgeCache' = edgeCache]_vars

\* a call got a blank or unparsable document and no tier holds its url, while
\* the other url is cached
C9_Witness ==
  \E p \in Slots :
    /\ cReq[p].pc = "failed"
    /\ cReq[p].err \in {"empty", "parse"}
    /\ cReq[p].url \notin DOMAIN memoryCache \cup DOMAIN edgeCache
    /\ DOMAIN memoryCache # {}

\* C10: each local entry is the value and the expiry of one completed
\* memoryCache.set for its url, the last one; of two overlapping calls that
\* both missed, fetched and wrote, the later write is the entry.
C10_LastWriteWins ==
  /\ DOMAIN memoryCache = DOMAIN cLast
  /\ \A u \in DOMAIN memoryCache :
       memoryCache[u] = [value |-> cLast[u].value,
                         expiresAt |-> cLast[u].at + TtlMs]

\* two overlapping calls for one url both missed and wrote different shapes;
\* the entry is the later one's
C10_Witness ==
  \E p, q \in Slots :
    /\ p # q
    /\ cTicks = 0
    /\ cReq[p].url = cReq[q].url
    /\ cReq[p].src = "live"
    /\ cReq[q].src = "live"
    /\ cReq[p].shape # cReq[q].shape
    /\ memoryCache[cReq[q].url].value = cReq[q].shape

-----------------------------------------------------------------------------
(* Claims about the errors of the relay handler and about the body of the   *)
(* outbound call, checked under SpecRelay.                                  *)

\* C11: every failure in the relay handler is caught and answered with a
\* structured 4xx response: the handler never ends with an uncaught
\* exception, neither when a declared JSON body does not parse nor when the
\* upstream is unreachable.
C11_FailuresCaught ==
  /\ rPc # "threw"
  /\ (rPc = "done" /\ rCalls = <<>>) =>
       (rResp.status \in 400..499 /\ "error" \in DOMAIN rResp)

\* the part of C11 that holds of the code: when the handler ends because the
\* body does not parse, no outbound call has been made
C11_InvalidBodyNoCall ==
  (rPc = "threw" /\ ~UpstreamRequest(rReq, rTarget).ok) => rCalls = <<>>

-----------------------------------------------------------------------------
(* Claims about the spec-shape endpoint, checked under SpecCache.           *)

\* C12: the spec-shape endpoint answers every failure with status 400 and a
\* JSON body { error: string }, and success with the shape as JSON.
C12_ErrorsAreJson ==
  \A p \in Slots :
    /\ cReq[p].pc = "failed" =>
         /\ EndpointResponse(cReq[p]).status = 400
         /\ EndpointResponse(cReq[p]).json
         /\ EndpointResponse(cReq[p]).error # ""
    /\ cReq[p].pc = "done" =>
         /\ EndpointResponse(cReq[p]).status = 200
         /\ EndpointResponse(cReq[p]).json
         /\ EndpointResponse(cReq[p]).shape = cReq[p].shape

\* the part of C12 that holds of the code: every failure is answered with
\* status 400, and success with the shape as JSON
C12_ErrorsAre400 ==
  \A p \in Slots :
    /\ cReq[p].pc = "failed" => EndpointResponse(cReq[p]).status = 400
    /\ cReq[p].pc = "done" =>
         /\ EndpointResponse(cReq[p]).status = 200
         /\ EndpointResponse(cReq[p]).json

\* the caller's method is neither GET nor HEAD in any letter case and the
\* caller supplied body text that is not empty
BodyAllowed(req) ==
  /\ ToLowerCase(req.method) \notin {<<"g","e","t">>, <<"h","e","a","d">>}
  /\ req.body # Absent
  /\ Len(req.body) > 0

\* new Headers / Headers.set throws for the caller's headers or contentType
HeadersFail(req) ==
  LET Injected(c) == ~c.ok \/ ~InjectContentType(req, c.headers).ok
  IN Injected(CopyCallerHeaders(req.headers, EmptyHeaders))

\* C19: the outbound call carries a body only if the upper-cased method is
\* neither GET nor HEAD and the caller supplied body text that is not empty;
\* otherwise no body is attached and the body text is not parsed, so the
\* handler cannot fail on it.
C19_BodyOnlyWhenAllowed ==
  /\ Len(rCalls) >= 1 => (rCalls[1].body # Absent <=> BodyAllowed(rReq))
  /\ (rPc = "threw" /\ rCalls = <<>>) => (BodyAllowed(rReq) \/ HeadersFail(rReq))

\* 'get' with the declared JSON body {bad has been sent without a body
C19_Witness ==
  /\ Len(rCalls) = 1
  /\ rReq.method = <<"g","e","t">>
  /\ rReq.body = <<"{","b","a","d">>
  /\ rReq.contentType = S_application_json
  /\ rCalls[1].method = S_GET
  /\ rCalls[1].body = Absent

S_json == <<"j","s","o","n">>

\* the content type the outbound call carries names JSON
EffectiveTypeIsJson(call) ==
  /\ H_content_type \in DOMAIN call.headers
  /\ Includes(ToLowerCase(call.headers[H_content_type]), S_json)

\* C20: an attached body is parsed as JSON and serialized again if and only
\* if the effective content type of the outbound call (the caller's
\* content-type header, else the supplied contentType) contains json;
\* otherwise the body text is sent unchanged.
C20_JsonIffEffectiveType ==
  (Len(rCalls) >= 1 /\ rCalls[1].body # Absent) =>
    IF EffectiveTypeIsJson(rCalls[1])
    THEN /\ JsonRoundTrip(rReq.body).ok
         /\ rCalls[1].body = JsonRoundTrip(rReq.body).text
    ELSE rCalls[1].body = rReq.body

\* what holds of the code: the body is parsed and serialized again exactly
\* when the supplied contentType, lower-cased, contains application/json
C20_JsonIffSuppliedType ==
  (Len(rCalls) >= 1 /\ rCalls[1].body # Absent) =>
    IF /\ rReq.contentType # Absent
       /\ Includes(ToLowerCase(rReq.contentType), S_application_json)
    THEN /\ JsonRoundTrip(rReq.body).ok
         /\ rCalls[1].body = JsonRoundTrip(rReq.body).text
    ELSE rCalls[1].body = rReq.body

-----------------------------------------------------------------------------
(* Claims about the order of the cache tiers, checked under SpecCache.      *)

\* the local tier holds an entry for url that has not expired
LocalFresh(url) ==
  /\ url \in DOMAIN memoryCache
  /\ cNow < memoryCache[url].expiresAt

\* the shared tier holds a response for url that has not expired
SharedFresh(url) ==
  /\ url \in DOMAIN edgeCache
  /\ cNow < edgeCache[url].storedAt + edgeCache[url].maxAge * MsPerSecond

\* C18: the tiers are consulted in order and a hit suppresses the fetch: a
\* call for a url with an unexpired local entry returns it without asking
\* the shared tier and without fetching; the shared tier is asked only on a
\* local miss; the document is fetched only when both tiers miss.
C18_TiersInOrder ==
  [][\A p \in Slots :
       /\ (LocalLookupStep(p) /\ LocalFresh(cReq'[p].url)) =>
            /\ cReq'[p].pc = "done"
            /\ cReq'[p].src = "local"
            /\ cReq'[p].shape = memoryCache[cReq'[p].url].value
       /\ (cReq[p].pc # "match" /\ cReq'[p].pc = "match") =>
            /\ cReq[p].pc = "idle"
            /\ ~LocalFresh(cReq'[p].url)
       /\ (cReq[p].pc # "fetch" /\ cReq'[p].pc = "fetch") =>
            \/ cReq[p].pc = "idle" /\ ~cEdge /\ ~LocalFresh(cReq'[p].url)
            \/ cReq[p].pc = "match" /\ ~SharedFresh(cReq[p].url)
       /\ (cReq[p].pc # "text" /\ cReq'[p].pc = "text") => cReq[p].pc = "fetch"]_vars

\* with a shared tier present, a call was served by the local tier
C18_Witness ==
  /\ cEdge
  /\ \E p \in Slots :
       /\ cReq[p].pc = "done"
       /\ cReq[p].src = "local"
       /\ cReq[p].url \in DOMAIN memoryCache
       /\ cReq[p].shape = memoryCache[cReq[p].url].value

\* a call the local tier missed was served by the shared tier, without a fetch
C18_WitnessShared ==
  \E p \in Slots :
    /\ cReq[p].pc = "done"
    /\ cReq[p].src = "edge"
    /\ cReq[p].shape = edgeCache[cReq[p].url].body

-----------------------------------------------------------------------------
(* Claims about buildTargetUrl, checked under SpecRelay.                    *)

RECURSIVE TokenNames(_)
\* the names of the {name} tokens of a path template
TokenNames(path) ==
  LET At(rest, close) ==
        IF path[1] = "{" /\ close >= 2
        THEN {SubSeq(rest, 1, close - 1)}
             \cup TokenNames(SubSeq(rest, close + 1, Len(rest)))
        ELSE TokenNames(rest)
  IN IF Len(path) = 0 THEN {}
     ELSE At(Tail(path), IndexOfChar(Tail(path), "}"))

\* the handler has built, or failed to build, the target of a valid request
TargetBuilt ==
  /\ rPc \in {"built", "safe", "awaiting", "received", "threw", "done"}
  /\ SchemaValid(rReq)

\* C15: every {name} token is replaced by the encoded value of
\* pathParams[name], or by the empty string when pathParams has no such
\* name; buildTargetUrl fails only when the base URL does not parse.
C15_TokensReplaced ==
  TargetBuilt =>
    /\ rTarget.ok <=> NewURL(rReq.baseUrl, NoUrl).ok
    /\ \A name \in TokenNames(rReq.path) :
         Lookup(rReq.pathParams, name)
           = IF Own(rReq.pathParams, name) = Absent THEN <<>>
             ELSE Own(rReq.pathParams, name)

\* what holds of the code: a token whose name is no member of
\* Object.prototype is replaced by the caller's value or by the empty string,
\* and a base URL that does not parse makes buildTargetUrl fail
C15_OrdinaryTokensReplaced ==
  TargetBuilt =>
    /\ rTarget.ok => NewURL(rReq.baseUrl, NoUrl).ok
    /\ \A name \in TokenNames(rReq.path) :
         Own(ObjectPrototype, name) = Absent =>
           Lookup(rReq.pathParams, name)
             = IF Own(rReq.pathParams, name) = Absent THEN <<>>
               ELSE Own(rReq.pathParams, name)

-----------------------------------------------------------------------------
(* The reducer on its own: a parsed document is reduced once                *)
(* (fetchAndShapeOpenApi: reduceOpenApiSpec(parseOpenApiText(text))).       *)

\* { k: w }, or {} when w is undefined: a field that may be missing
Field(k, w) == IF w = JUndef THEN <<>> ELSE << <<k, w>> >>

\* a document that uses every field the reducer reads
ExampleSpec ==
  JObj(<< <<<<"s","e","r","v","e","r","s">>, JArr(<< JObj(<< <<<<"u","r","l">>, JStr(<<"h","t","t","p","s",":","/","/","a","p","i",".","t","e","s","t">>)>> >>) >>)>>,
          <<<<"i","n","f","o">>, JObj(<< <<<<"t","i","t","l","e">>, JStr(<<"T">>)>>, <<<<"v","e","r","s","i","o","n">>, JStr(<<"1">>)>> >>)>>,
          <<<<"c","o","m","p","o","n","e","n","t","s">>,
            JObj(<< <<<<"s","e","c","u","r","i","t","y","S","c","h","e","m","e","s">>,
                      JObj(<< <<<<"k">>, JObj(<< <<<<"t","y","p","e">>, JStr(<<"a","p","i","K","e","y">>)>>,
                                             <<<<"i","n">>, JStr(<<"h","e","a","d","e","r">>)>>,
                                             <<<<"n","a","m","e">>, JStr(<<"X","-","K","e","y">>)>> >>)>> >>)>> >>)>>,
          <<<<"p","a","t","h","s">>,
            JObj(<< <<<<"/","a","/","{","i","d","}">>,
                      JObj(<< <<<<"p","a","r","a","m","e","t","e","r","s">>,
                                JArr(<< JObj(<< <<<<"n","a","m","e">>, JStr(<<"i","d">>)>>,
                                                <<<<"i","n">>, JStr(<<"p","a","t","h">>)>> >>) >>)>>,
                              <<<<"g","e","t">>,
                                JObj(<< <<<<"s","u","m","m","a","r","y">>, JStr(<<"s">>)>>,
                                        <<<<"p","a","r","a","m","e","t","e","r","s">>,
                                          JArr(<< JObj(<< <<<<"n","a","m","e">>, JStr(<<"q">>)>>,
                                                          <<<<"i","n">>, JStr(<<"q","u","e","r","y">>)>>,
                                                          <<<<"r","e","q","u","i","r","e","d">>, JBool(FALSE)>>,
                                                          <<<<"s","c","h","e","m","a">>,
                                                            JObj(<< <<<<"t","y","p","e">>, JStr(<<"s","t","r","i","n","g">>)>>,
                                                                    <<<<"e","n","u","m">>, JArr(<<JStr(<<"x">>)>>)>> >>)>> >>) >>)>>,
                                        <<<<"r","e","q","u","e","s","t","B","o","d","y">>,
                                          JObj(<< <<<<"c","o","n","t","e","n","t">>,
                                                    JObj(<< <<<<"a","p","p","l","i","c","a","t","i","o","n","/","j","s","o","n">>,
                                                              JObj(<< <<<<"s","c","h","e","m","a">>,
                                                                        JObj(<< <<<<"t","y","p","e">>, JStr(<<"o","b","j","e","c","t">>)>>,
                                                                                <<<<"p","r","o","p","e","r","t","i","e","s">>,
                                                                                  JObj(<< <<<<"f">>, JObj(<< <<<<"t","y","p","e">>, JStr(<<"s","t","r","i","n","g">>)>> >>)>> >>)>>,
                                                                                <<<<"r","e","q","u","i","r","e","d">>, JArr(<<JStr(<<"f">>)>>)>> >>)>> >>)>> >>)>> >>)>>,
                                        <<<<"s","e","c","u","r","i","t","y">>, JArr(<< JObj(<< <<<<"k">>, JArr(<<>>)>> >>) >>)>> >>)>> >>)>> >>)>> >>)

RECURSIVE NodePaths(_)
\* the place of every value inside a value: the keys that lead to it
NodePaths(x) ==
  {<<>>} \cup UNION { { <<Entries(x)[i][1]>> \o q : q \in NodePaths(Entries(x)[i][2]) } :
                      i \in 1..Len(Entries(x)) }

RECURSIVE Replaced(_, _, _)
\* the value x with the value at one place replaced by w; a property
\* replaced by undefined is a property that is missing
Replaced(x, place, w) ==
  IF place = <<>> THEN w
  ELSE LET es == Entries(x)
           With(k, inner) ==
             IF x[1] = "array"
             THEN JArr([i \in 1..Len(es) |->
                          IF i # k THEN es[i][2]
                          ELSE IF inner = JUndef THEN JNull ELSE inner])
             ELSE IF inner = JUndef
             THEN JObj(SubSeq(es, 1, k - 1) \o SubSeq(es, k + 1, Len(es)))
             ELSE JObj([i \in 1..Len(es) |->
                          IF i # k THEN es[i] ELSE <<es[i][1], inner>>])
           At(k) == With(k, Replaced(es[k][2], Tail(place), w))
       IN At(CHOOSE i \in 1..Len(es) : es[i][1] = place[1])

\* what a field holds when it is missing or of the wrong type
WrongValues ==
  { JUndef, JNull, JStr(<<>>), JStr(<<"x">>), JNum(0), JNum(5), JBool(TRUE),
    JBool(FALSE), JArr(<<>>), JArr(<<JNull, JStr(<<"x">>)>>), JObj(<<>>),
    JObj(<< <<<<"g","e","t">>, JNull>>, <<<<"p","o","s","t">>, JStr(<<"x">>)>>, <<<<"c","o","n","t","e","n","t">>, JNull>>,
            <<<<"s","c","h","e","m","a">>, JNull>>, <<<<"p","a","r","a","m","e","t","e","r","s">>, JArr(<<JNull>>)>>,
            <<<<"a","p","p","l","i","c","a","t","i","o","n","/","j","s","o","n">>, JNull>>, <<<<"x">>, JNull>> >>) }

\* the example with one of its values replaced, the whole document included
WrongTypedDocuments ==
  { IF place = <<>> /\ w = JUndef THEN JNull ELSE Replaced(ExampleSpec, place, w) :
      place \in NodePaths(ExampleSpec), w \in WrongValues }

PathKeys == {<<"/","a">>, <<"/","B">>, <<"/","b">>, <<"/","A">>, <<"/","a","/","{","i","d","}">>, <<"/","a","_","b">>, <<"/","a","b">>}

\* documents with two paths, in either order of declaration, a get and a
\* delete under each
TwoPathDocuments ==
  LET item == JObj(<< <<<<"g","e","t">>, JObj(<<>>)>>, <<<<"d","e","l","e","t","e">>, JObj(<<>>)>> >>)
  IN { JObj(<< <<<<"p","a","t","h","s">>, JObj(<< <<k[1], item>>, <<k[2], item>> >>)>> >>) :
         k \in {q \in PathKeys \X PathKeys : q[1] # q[2]} }

\* a document with one operation that declares one parameter
ParameterDocument(loc, name, required) ==
  JObj(<< <<<<"p","a","t","h","s">>,
            JObj(<< <<<<"/","p">>,
                      JObj(<< <<<<"g","e","t">>,
                                JObj(<< <<<<"p","a","r","a","m","e","t","e","r","s">>,
                                          JArr(<< JObj(Field(<<"i","n">>, loc)
                                                       \o Field(<<"n","a","m","e">>, name)
                                                       \o Field(<<"r","e","q","u","i","r","e","d">>, required)) >>)>> >>)>> >>)>> >>)>> >>)

ParameterDocuments ==
  { ParameterDocument(loc, name, required) :
      loc \in {JUndef, JStr(<<"p","a","t","h">>), JStr(<<"q","u","e","r","y">>), JStr(<<"h","e","a","d","e","r">>),
               JStr(<<"c","o","o","k","i","e">>), JStr(<<"P","a","t","h">>), JNum(1)},
      name \in {JUndef, JStr(<<>>), JStr(<<"i","d">>), JNum(7)},
      required \in {JUndef, JNull, JBool(FALSE), JBool(TRUE), JStr(<<"n","o">>), JNum(0)} }

\* { type: 'object', properties: { p1: { type: 'string' }, ..., pn: ... } }
\* with the required member given
ObjectSchema(n, required) ==
  JObj(<< <<<<"t","y","p","e">>, JStr(<<"o","b","j","e","c","t">>)>>,
          <<<<"p","r","o","p","e","r","t","i","e","s">>,
            JObj([i \in 1..n |->
                    <<<<"p">> \o DecimalString(i),
                      JObj(<< <<<<"t","y","p","e">>, JStr(<<"s","t","r","i","n","g">>)>> >>)>>])>> >>
       \o Field(<<"r","e","q","u","i","r","e","d">>, required))

\* what a document may declare as required beside the properties
RequiredLists ==
  { JUndef, JArr(<<JStr(<<"p","1">>)>>), JStr(<<"p","1">>),
    JArr(<<JNum(1), JStr(<<"p","2">>), JStr(<<"o","t","h","e","r">>)>>) }

\* schemas of a media type: none, no object, object schemas with no, one,
\* two, MaxBodyFields and MaxBodyFields + 1 properties, schemas of another
\* type or of none with properties, object schemas whose properties are
\* missing, null or a list
BodySchemas ==
  { JUndef, JNull, JStr(<<"x">>), JArr(<<>>) }
  \cup { ObjectSchema(n, r) :
           n \in {0, 1, 2, MaxBodyFields, MaxBodyFields + 1},
           r \in RequiredLists }
  \cup { JObj(<< <<<<"t","y","p","e">>, JStr(<<"s","t","r","i","n","g">>)>>,
                 <<<<"p","r","o","p","e","r","t","i","e","s">>, JObj(<< <<<<"p","1">>, JObj(<<>>)>> >>)>> >>),
         JObj(<< <<<<"p","r","o","p","e","r","t","i","e","s">>, JObj(<< <<<<"p","1">>, JObj(<<>>)>> >>)>> >>),
         JObj(<< <<<<"t","y","p","e">>, JStr(<<"o","b","j","e","c","t">>)>> >>),
         JObj(<< <<<<"t","y","p","e">>, JStr(<<"o","b","j","e","c","t">>)>>, <<<<"p","r","o","p","e","r","t","i","e","s">>, JNull>> >>),
         JObj(<< <<<<"t","y","p","e">>, JStr(<<"o","b","j","e","c","t">>)>>,
                 <<<<"p","r","o","p","e","r","t","i","e","s">>, JArr(<<JObj(<< <<<<"t","y","p","e">>, JStr(<<"s","t","r","i","n","g">>)>> >>)>>)>> >>) }

\* { schema: s }, or {} when s is undefined
MediaType(s) == JObj(Field(<<"s","c","h","e","m","a">>, s))

\* the content of a request body: one or two media types in either order,
\* JSON-flavored names in several spellings, a media type that is no object
BodyContents ==
  LET other == MediaType(ObjectSchema(1, JUndef)) IN
  { JObj(<<>>), JNull, JStr(<<"x">>),
    JObj(<< <<<<"t","e","x","t","/","p","l","a","i","n">>, other>> >>),
    JObj(<< <<<<"m","u","l","t","i","p","a","r","t","/","f","o","r","m","-","d","a","t","a">>, JObj(<<>>)>>, <<<<"t","e","x","t","/","p","l","a","i","n">>, other>> >>) }
  \cup UNION {
    { JObj(<< <<<<"a","p","p","l","i","c","a","t","i","o","n","/","j","s","o","n">>, MediaType(s)>> >>),
      JObj(<< <<<<"t","e","x","t","/","p","l","a","i","n">>, other>>,
              <<<<"a","p","p","l","i","c","a","t","i","o","n","/","v","n","d",".","a","p","i","+","j","s","o","n">>, MediaType(s)>>,
              <<<<"t","e","x","t","/","j","s","o","n">>, other>> >>),
      JObj(<< <<<<"t","e","x","t","/","j","s","o","n">>, other>>, <<<<"a","p","p","l","i","c","a","t","i","o","n","/","j","s","o","n">>, MediaType(s)>> >>),
      JObj(<< <<<<"A","p","p","l","i","c","a","t","i","o","n","/","J","S","O","N">>, MediaType(s)>> >>),
      JObj(<< <<<<"a","p","p","l","i","c","a","t","i","o","n","/","v","n","d",".","a","p","i","+","j","s","o","n">>, MediaType(s)>>,
              <<<<"a","p","p","l","i","c","a","t","i","o","n","/","j","s","o","n">>, JStr(<<"x">>)>> >>),
      JObj(<< <<<<"a","p","p","l","i","c","a","t","i","o","n","/","j","s","o","n">>, JNull>>,
              <<<<"a","p","p","l","i","c","a","t","i","o","n","/","v","n","d",".","a","p","i","+","j","s","o","n">>, MediaType(s)>> >>),
      JArr(<<MediaType(s)>>) } : s \in BodySchemas }

\* a document with one operation that declares a request body
RequestBodyDocument(content) ==
  JObj(<< <<<<"p","a","t","h","s">>,
            JObj(<< <<<<"/","p">>,
                      JObj(<< <<<<"p","o","s","t">>,
                                JObj(<< <<<<"r","e","q","u","e","s","t","B","o","d","y">>,
                                          JObj(<< <<<<"c","o","n","t","e","n","t">>, content>> >>)>> >>)>> >>)>> >>)>> >>)

RequestBodyDocuments == { RequestBodyDocument(c) : c \in BodyContents }

ParsedDocuments ==
  WrongTypedDocuments \cup TwoPathDocuments \cup ParameterDocuments
  \cup RequestBodyDocuments

ReduceInit ==
  /\ dDoc \in ParsedDocuments
  /\ dShape = JUndef
  /\ dPc = "start"

\* const shape = reduceOpenApiSpec(parsed)
Reduce ==
  /\ dPc = "start"
  /\ dShape' = reduceOpenApiSpec(dDoc)
  /\ dPc' = "done"
  /\ UNCHANGED <<dDoc, guardVars, relayVars, cacheVars, stateVars>>

InitReduce == ReduceInit /\ GuardIdle /\ RelayIdle /\ CacheIdle /\ StateIdle

NextReduce == Reduce

SpecReduce == InitReduce /\ [][NextReduce]_vars

-----------------------------------------------------------------------------
(* Claims about the reducer *)

Reduced == dPc = "done" /\ dShape[1] = "shape"

\* the paths entries the reducer iterates over
PathEntries(doc) ==
  IF Truthy(OptProp(doc, <<"p","a","t","h","s">>)) /\ TypeOf(OptProp(doc, <<"p","a","t","h","s">>)) = "object"
  THEN Entries(OptProp(doc, <<"p","a","t","h","s">>)) ELSE <<>>

\* C13: the operations of every shape the reducer returns are in strictly
\* ascending order of their keys, compared code unit by code unit
C13_SortedOrdinal ==
  Reduced =>
    \A i \in 1..(Len(dShape[2].operations) - 1) :
      OrdinalLess(dShape[2].operations[i].key, dShape[2].operations[i + 1].key)

\* what the code gives instead: the order of localeCompare
C13_SortedByCollation ==
  Reduced =>
    \A i \in 1..(Len(dShape[2].operations) - 1) :
      localeCompare(dShape[2].operations[i].key,
                    dShape[2].operations[i + 1].key) < 0

\* C14: reduceOpenApiSpec returns a SpecShape for every parsed document and
\* never throws, and a document without paths entries gives operations = []
C14_ReductionTotal ==
  dPc = "done" =>
    /\ dShape[1] = "shape"
    /\ Len(PathEntries(dDoc)) = 0 => dShape[2].operations = <<>>

\* a document that is null, and one whose servers and parameters hold null,
\* were reduced
C14_Witness ==
  /\ Reduced
  /\ dDoc = Replaced(ExampleSpec, <<<<"s","e","r","v","e","r","s">>>>, JArr(<<JNull, JStr(<<"x">>)>>))
  /\ dShape[2].servers = <<>>
  /\ Len(dShape[2].operations) = 1

C14_WitnessNull ==
  /\ Reduced
  /\ dDoc = JNull
  /\ dShape[2].operations = <<>>

\* C17: every parameter of every operation returned has a name that is not
\* empty and a location among path, query, header, and a path parameter is
\* required whatever the document declares
C17_ParametersWellFormed ==
  Reduced =>
    \A i \in 1..Len(dShape[2].operations) :
      \A j \in 1..Len(dShape[2].operations[i].parameters) :
        LET Ok(p) == /\ p.name # <<>>
                     /\ p.in \in ParamLocations
                     /\ p.in = <<"p","a","t","h">> => p.required = TRUE
        IN Ok(dShape[2].operations[i].parameters[j])

\* a path parameter the document declares with required: false was
\* returned with required = true
C17_Witness ==
  /\ Reduced
  /\ dDoc = ParameterDocument(JStr(<<"p","a","t","h">>), JStr(<<"i","d">>), JBool(FALSE))
  /\ Len(dShape[2].operations) = 1
  /\ dShape[2].operations[1].parameters
       = << [name |-> <<"i","d">>, in |-> <<"p","a","t","h">>, required |-> TRUE,
             schema |-> [type |-> JUndef, format |-> JUndef, enum |-> JUndef,
                         default |-> JUndef]] >>

-----------------------------------------------------------------------------
(* Request bodies, src/lib/openapiShape.ts 196-254. *)

\* the operation of the document that a returned operation was made from
DeclaredOperation(doc, op) ==
  Prop(Prop(OptProp(doc, <<"p","a","t","h","s">>), op.path), ToLowerCase(op.method))

\* the content map of the operation's requestBody in the document, empty
\* where the document has none
DeclaredContent(doc, op) ==
  LET Of(requestBody) ==
        IF requestBody[1] \in {"object", "array"}
           /\ Prop(requestBody, <<"c","o","n","t","e","n","t">>)[1] \in {"object", "array"}
        THEN Prop(requestBody, <<"c","o","n","t","e","n","t">>) ELSE JObj(<<>>)
  IN Of(OptProp(DeclaredOperation(doc, op), <<"r","e","q","u","e","s","t","B","o","d","y">>))

\* the content-type keys of a content map, in document order
ContentTypeKeys(content) ==
  [i \in 1..Len(Entries(content)) |-> Entries(content)[i][1]]

\* the first key whose name contains json, in any letter case; none is <<>>
FirstJsonKey(keys) ==
  IF \E i \in 1..Len(keys) : Includes(ToLowerCase(keys[i]), <<"j","s","o","n">>)
  THEN keys[CHOOSE i \in 1..Len(keys) :
              /\ Includes(ToLowerCase(keys[i]), <<"j","s","o","n">>)
              /\ \A j \in 1..(i - 1) : ~Includes(ToLowerCase(keys[j]), <<"j","s","o","n">>)]
  ELSE <<>>

\* the preferred JSON content type: application/json where the content
\* declares it, else the first type whose name contains json
PreferredJsonType(content) ==
  IF \E i \in 1..Len(Entries(content)) :
       Entries(content)[i][1] = <<"a","p","p","l","i","c","a","t","i","o","n","/","j","s","o","n">>
  THEN <<"a","p","p","l","i","c","a","t","i","o","n","/","j","s","o","n">>
  ELSE FirstJsonKey(ContentTypeKeys(content))

\* the preferred JSON content type where application/json counts only if
\* its entry is an object, a list or null
PreferredJsonTypeOfObject(content) ==
  IF Prop(content, <<"a","p","p","l","i","c","a","t","i","o","n","/","j","s","o","n">>)[1] \in {"object", "array", "null"}
  THEN <<"a","p","p","l","i","c","a","t","i","o","n","/","j","s","o","n">>
  ELSE FirstJsonKey(ContentTypeKeys(content))

\* the schema a media type entry declares; undefined where the entry is no
\* object or declares none
SchemaOf(content, type) ==
  IF type = <<>> \/ Prop(content, type)[1] \notin {"object", "array"}
  THEN JUndef
  ELSE Prop(Prop(content, type), <<"s","c","h","e","m","a">>)

\* a properties member that is a map
IsMap(x) == x[1] = "object"

\* a properties member that is a map or a list, whose positions then count
\* as names
IsMapOrList(x) == x[1] \in {"object", "array"}

\* the schema has type object and properties of the given kind
HasProperties(schema, OfKind(_)) ==
  /\ schema[1] \in {"object", "array"}
  /\ Prop(schema, <<"t","y","p","e">>) = JStr(<<"o","b","j","e","c","t">>)
  /\ OfKind(Prop(schema, <<"p","r","o","p","e","r","t","i","e","s">>))

\* the field list of a schema with properties: one field per property, in
\* document order, required where the sibling required list names it
FieldsOf(schema) ==
  LET props == Entries(Prop(schema, <<"p","r","o","p","e","r","t","i","e","s">>))
      required == Prop(schema, <<"r","e","q","u","i","r","e","d">>)
  IN [i \in 1..Len(props) |->
        [name |-> props[i][1],
         required |-> /\ IsArray(required)
                      /\ \E j \in 1..Len(required[2]) :
                           required[2][j] = JStr(props[i][1]),
         type |-> IF props[i][2][1] \in {"object", "array"}
                     /\ Prop(props[i][2], <<"t","y","p","e">>)[1] = "string"
                  THEN Prop(props[i][2], <<"t","y","p","e">>) ELSE JUndef]]

\* the statement about one returned requestBody, for a content map, a choice
\* of the preferred type and a kind of properties
BodyReducedAs(body, content, Preferred(_), OfKind(_)) ==
  LET schema == SchemaOf(content, Preferred(content))
      Decomposed ==
        /\ HasProperties(schema, OfKind)
        /\ Len(FieldsOf(schema)) \in 1..MaxBodyFields
  IN /\ body # JUndef <=> Len(ContentTypeKeys(content)) >= 1
     /\ body # JUndef =>
          /\ body[2].contentTypes = ContentTypeKeys(content)
          /\ ~(body[2].fields # JUndef /\ body[2].rawSchema # JUndef)
          /\ body[2].fields # JUndef =>
               /\ Decomposed
               /\ body[2].fields = <<"fields", FieldsOf(schema)>>
          /\ (schema # JUndef /\ ~Decomposed) => body[2].rawSchema = schema

\* C23: in every operation the reducer returns, requestBody is present if
\* and only if the document's requestBody has at least one content-type key;
\* fields and rawSchema are never both present; fields is present only when
\* the schema of the preferred JSON content type (application/json, else the
\* first type whose name contains json) has type object and a properties
\* map, and then holds between 1 and 50 entries with required taken from the
\* sibling required array; a present schema that is non-object, has no or
\* empty properties or more than 50 properties is passed through as
\* rawSchema.
C23_RequestBodyReduced ==
  Reduced =>
    \A i \in 1..Len(dShape[2].operations) :
      BodyReducedAs(dShape[2].operations[i].requestBody,
                    DeclaredContent(dDoc, dShape[2].operations[i]),
                    PreferredJsonType, IsMap)

\* what holds of the code in place of C23: application/json is preferred
\* only where its entry is an object, a list or null, and properties may be
\* a list, whose positions are then the field names
C23_RequestBodyReducedAsCoded ==
  Reduced =>
    \A i \in 1..Len(dShape[2].operations) :
      BodyReducedAs(dShape[2].operations[i].requestBody,
                    DeclaredContent(dDoc, dShape[2].operations[i]),
                    PreferredJsonTypeOfObject, IsMapOrList)

\* a schema whose properties are the list [{ type: 'string' }]
ListPropertiesSchema ==
  JObj(<< <<<<"t","y","p","e">>, JStr(<<"o","b","j","e","c","t">>)>>,
          <<<<"p","r","o","p","e","r","t","i","e","s">>, JArr(<<JObj(<< <<<<"t","y","p","e">>, JStr(<<"s","t","r","i","n","g">>)>> >>)>>)>> >>)

\* the list of properties has been returned as one field named 0
C23_ListReturnedAsFields ==
  /\ Reduced
  /\ dDoc = RequestBodyDocument(
              JObj(<< <<<<"a","p","p","l","i","c","a","t","i","o","n","/","j","s","o","n">>, MediaType(ListPropertiesSchema)>> >>))
  /\ Len(dShape[2].operations) = 1
  /\ dShape[2].operations[1].requestBody
       = <<"body", [contentTypes |-> <<<<"a","p","p","l","i","c","a","t","i","o","n","/","j","s","o","n">>>>,
                    fields |-> <<"fields", << [name |-> <<"0">>,
                                               required |-> FALSE,
                                               type |-> JStr(<<"s","t","r","i","n","g">>)] >> >>,
                    rawSchema |-> JUndef]>>

\* application/json is declared with the text 'x' after
\* application/vnd.api+json, and the fields of the latter have been returned
C23_OtherTypePreferred ==
  /\ Reduced
  /\ dDoc = RequestBodyDocument(
              JObj(<< <<<<"a","p","p","l","i","c","a","t","i","o","n","/","v","n","d",".","a","p","i","+","j","s","o","n">>, MediaType(ObjectSchema(1, JUndef))>>,
                      <<<<"a","p","p","l","i","c","a","t","i","o","n","/","j","s","o","n">>, JStr(<<"x">>)>> >>))
  /\ Len(dShape[2].operations) = 1
  /\ dShape[2].operations[1].requestBody[2].fields
       = <<"fields", << [name |-> <<"p","1">>, required |-> FALSE,
                         type |-> JStr(<<"s","t","r","i","n","g">>)] >> >>

\* a schema of MaxBodyFields + 1 properties has been passed through as
\* rawSchema, one of MaxBodyFields has been returned as fields
C23_CapReached ==
  /\ Reduced
  /\ Len(dShape[2].operations) = 1
  /\ \/ /\ dDoc = RequestBodyDocument(
                    JObj(<< <<<<"a","p","p","l","i","c","a","t","i","o","n","/","j","s","o","n">>,
                              MediaType(ObjectSchema(MaxBodyFields + 1, JUndef))>> >>))
        /\ dShape[2].operations[1].requestBody[2].rawSchema
             = ObjectSchema(MaxBodyFields + 1, JUndef)
     \/ /\ dDoc = RequestBodyDocument(
                    JObj(<< <<<<"a","p","p","l","i","c","a","t","i","o","n","/","j","s","o","n">>,
                              MediaType(ObjectSchema(MaxBodyFields, JUndef))>> >>))
        /\ Len(dShape[2].operations[1].requestBody[2].fields[2]) = MaxBodyFields

-----------------------------------------------------------------------------
(* The URL state codec (src/lib/urlState.ts, src/lib/base64url.ts).  Bytes  *)
(* are numbers 0..255; the texts are ASCII, one byte per character.         *)

MAX_STATE_BYTES == 20000

RECURSIVE FlattenRange(_, _, _)
\* pieces[lo] \o ... \o pieces[hi], by halves
FlattenRange(pieces, lo, hi) ==
  IF lo > hi THEN <<>>
  ELSE IF lo = hi THEN pieces[lo]
  ELSE FlattenRange(pieces, lo, (lo + hi) \div 2)
       \o FlattenRange(pieces, ((lo + hi) \div 2) + 1, hi)

\* charCodeAt(0) of a printable ASCII character
CharCode ==
  [c \in {CodeUnitOrder[i] : i \in 1..Len(CodeUnitOrder)} |->
     LET At(i) == IF i <= 64 THEN 31 + i ELSE 32 + i
     IN At(CHOOSE i \in 1..Len(CodeUnitOrder) : CodeUnitOrder[i] = c)]

\* String.fromCharCode(n) for the same characters
FromCharCode(n) ==
  IF n >= 32 /\ n <= 95 THEN CodeUnitOrder[n - 31]
  ELSE IF n >= 97 /\ n <= 126 THEN CodeUnitOrder[n - 32]
  ELSE "?"

\* the alphabet of btoa and atob
Base64Chars == UpperChars \o LowerChars \o DigitChars \o <<"+", "/">>

Base64Index ==
  [c \in {Base64Chars[i] : i \in 1..64} |->
     (CHOOSE i \in 1..64 : Base64Chars[i] = c) - 1]

\* btoa of the binary string of the bytes: three bytes give four
\* characters, the last group is filled with "="
Btoa(bytes) ==
  LET n == Len(bytes)
      Byte(i) == IF i <= n THEN bytes[i] ELSE 0
      Sextet(g, k) ==
        CASE k = 0 -> Byte(3 * g + 1) \div 4
          [] k = 1 -> (Byte(3 * g + 1) % 4) * 16 + Byte(3 * g + 2) \div 16
          [] k = 2 -> (Byte(3 * g + 2) % 16) * 4 + Byte(3 * g + 3) \div 64
          [] OTHER -> Byte(3 * g + 3) % 64
      Char(g, k) == IF 3 * g + k > n THEN "=" ELSE Base64Chars[Sextet(g, k) + 1]
  IN [j \in 1..(4 * ((n + 2) \div 3)) |-> Char((j - 1) \div 4, (j - 1) % 4)]

\* the number of "=" a text ends in
TrailingPads(text) ==
  IF \E i \in 1..Len(text) : text[i] # "="
  THEN Len(text) - (CHOOSE i \in 1..Len(text) :
                      text[i] # "=" /\ \A j \in (i + 1)..Len(text) : text[j] = "=")
  ELSE Len(text)

\* base64.replace(/\+/g, '-').replace(/\//g, '_').replace(/=+$/g, '')
encodeBase64Url(bytes) ==
  LET Url(base64) ==
        [i \in 1..(Len(base64) - TrailingPads(base64)) |->
           IF base64[i] = "+" THEN "-"
           ELSE IF base64[i] = "/" THEN "_"
           ELSE base64[i]]
  IN Url(Btoa(bytes))

\* atob: the forgiving base64 decoder.  A text whose length is a multiple
\* of four may end in one or two "="; what is left must be base64
\* characters and not one more than a multiple of four; the bits left over
\* in the last group are dropped.  Threw when it raises.
Atob(text) ==
  LET Data(chars) ==
        IF Len(chars) % 4 = 1
           \/ \E i \in 1..Len(chars) : chars[i] \notin DOMAIN Base64Index
        THEN Threw
        ELSE LET Six(i) == IF i <= Len(chars) THEN Base64Index[chars[i]] ELSE 0
                 Byte(g, k) ==
                   CASE k = 0 -> Six(4 * g + 1) * 4 + Six(4 * g + 2) \div 16
                     [] k = 1 -> (Six(4 * g + 2) % 16) * 16 + Six(4 * g + 3) \div 4
                     [] OTHER -> (Six(4 * g + 3) % 4) * 64 + Six(4 * g + 4)
             IN <<"bytes", [j \in 1..((Len(chars) * 3) \div 4) |->
                              Byte((j - 1) \div 3, (j - 1) % 3)]>>
  IN IF Len(text) % 4 = 0 /\ TrailingPads(text) \in {1, 2}
     THEN Data(SubSeq(text, 1, Len(text) - TrailingPads(text)))
     ELSE Data(text)

\* input.replace(/-/g, '+').replace(/_/g, '/'), padded with
\* '==='.slice((base64.length + 3) % 4), through atob
decodeBase64Url(input) ==
  LET base64 == [i \in 1..Len(input) |->
                   IF input[i] = "-" THEN "+"
                   ELSE IF input[i] = "_" THEN "/"
                   ELSE input[i]]
      pad == SubSeq(<<"=", "=", "=">>, ((Len(input) + 3) % 4) + 1, 3)
  IN Atob(base64 \o pad)

AdlerBase == 65521

RECURSIVE SumMod(_, _, _)
\* (terms[lo] + ... + terms[hi]) % AdlerBase, by halves
SumMod(terms, lo, hi) ==
  IF lo > hi THEN 0
  ELSE IF lo = hi THEN terms[lo] % AdlerBase
  ELSE (SumMod(terms, lo, (lo + hi) \div 2)
        + SumMod(terms, ((lo + hi) \div 2) + 1, hi)) % AdlerBase

\* the Adler-32 checksum of the data, most significant byte first
Adler32(data) ==
  LET n == Len(data)
      Sum(a, b) == <<b \div 256, b % 256, a \div 256, a % 256>>
  IN Sum((1 + SumMod(data, 1, n)) % AdlerBase,
         ((n % AdlerBase)
          + SumMod([i \in 1..n |-> (((n - i + 1) % AdlerBase) * data[i]) % AdlerBase],
                   1, n)) % AdlerBase)

\* pako's deflate gives a zlib stream that inflate turns back into the
\* data.  Of the streams that do, the model takes the one of a single
\* stored block (what zlib writes for data it does not shrink): the header
\* 78 01, the block header with the length and its complement, the data,
\* the checksum.  A compressing deflate gives at most a few bytes more.
deflate(data) ==
  <<120, 1, 1, Len(data) % 256, Len(data) \div 256,
    255 - (Len(data) % 256), 255 - (Len(data) \div 256)>>
  \o data \o Adler32(data)

\* inflate(bytes): the data of the stream, Threw for bytes that are not one
inflate(bytes) ==
  IF Len(bytes) < 11 THEN Threw
  ELSE LET len == bytes[4] + 256 * bytes[5]
           Checked(data) ==
             IF SubSeq(bytes, Len(bytes) - 3, Len(bytes)) = Adler32(data)
             THEN <<"bytes", data>> ELSE Threw
       IN IF /\ SubSeq(bytes, 1, 3) = <<120, 1, 1>>
             /\ bytes[6] = 255 - bytes[4]
             /\ bytes[7] = 255 - bytes[5]
             /\ Len(bytes) = len + 11
          THEN Checked(SubSeq(bytes, 8, 7 + len))
          ELSE Threw

\* JSON.stringify of a string: quoted, the quote and the backslash escaped
JsonQuote(s) ==
  LET Escaped(c) == IF c = "\"" \/ c = "\\" THEN <<"\\", c>> ELSE <<c>>
  IN <<"\"">> \o FlattenRange([i \in 1..Len(s) |-> Escaped(s[i])], 1, Len(s))
     \o <<"\"">>

RECURSIVE JsonStringify(_)
\* JSON.stringify of a string or an object of such values: the properties
\* that are undefined are left out
JsonStringify(x) ==
  IF x[1] = "string" THEN JsonQuote(x[2])
  ELSE LET kept == SelectSeq(x[2], LAMBDA e : e[2] # JUndef)
       IN <<"{">>
          \o Join([i \in 1..Len(kept) |->
                     JsonQuote(kept[i][1]) \o <<":">> \o JsonStringify(kept[i][2])],
                  <<",">>)
          \o <<"}">>

RECURSIVE BackslashRun(_, _)
\* how many backslashes in a row end at text[i]
BackslashRun(text, i) ==
  IF i >= 1 /\ text[i] = "\\" THEN 1 + BackslashRun(text, i - 1) ELSE 0

\* the characters of a JSON string between its quotes, the escaping
\* backslashes removed
JsonUnquote(text, from, to) ==
  FlattenRange([i \in from..to |->
                  IF text[i] = "\\" /\ BackslashRun(text, i - 1) % 2 = 0
                  THEN <<>> ELSE <<text[i]>>],
               from, to)

\* the tokens of a JSON text of strings and objects: <<"string", s>> for a
\* string, <<"punctuation", c>> for every other character
JsonTokens(text) ==
  LET Between(from, to) ==
        [i \in 1..(to - from + 1) |-> <<"punctuation", text[from + i - 1]>>]
      Pieces(at) ==
        LET Piece(k) ==
              IF k = 0
              THEN Between(1, (IF Len(at) = 0 THEN Len(text) ELSE at[1] - 1))
              ELSE IF k % 2 = 1
              THEN << <<"string", JsonUnquote(text, at[k] + 1, at[k + 1] - 1)>> >>
              ELSE Between(at[k] + 1,
                           (IF k = Len(at) THEN Len(text) ELSE at[k + 1] - 1))
        IN IF Len(at) % 2 = 1 THEN Threw
           ELSE <<"tokens", FlattenRange([k \in 1..(Len(at) + 1) |-> Piece(k - 1)],
                                         1, Len(at) + 1)>>
      Sorted(quotes) ==
        Pieces([k \in 1..Cardinality(quotes) |->
                  CHOOSE i \in quotes : Cardinality({q \in quotes : q < i}) = k - 1])
  IN Sorted({i \in 1..Len(text) :
               text[i] = "\"" /\ BackslashRun(text, i - 1) % 2 = 0})

RECURSIVE ParseValue(_, _), ParseMembers(_, _, _, _)
\* JSON.parse from token i on, for a text JSON.stringify wrote (no white
\* space, strings and objects): <<"parsed", value, next>>, or Threw
ParseValue(tokens, i) ==
  IF i > Len(tokens) THEN Threw
  ELSE IF tokens[i][1] = "string" THEN <<"parsed", JStr(tokens[i][2]), i + 1>>
  ELSE IF tokens[i] = <<"punctuation", "{">> THEN ParseMembers(tokens, i + 1, <<>>, TRUE)
  ELSE Threw

ParseMembers(tokens, i, members, first) ==
  IF i > Len(tokens) THEN Threw
  ELSE IF first /\ tokens[i] = <<"punctuation", "}">>
  THEN <<"parsed", JObj(members), i + 1>>
  ELSE IF ~(i + 1 <= Len(tokens) /\ tokens[i][1] = "string"
            /\ tokens[i + 1] = <<"punctuation", ":">>)
  THEN Threw
  ELSE LET After(member) ==
             IF member = Threw \/ member[3] > Len(tokens) THEN Threw
             ELSE IF tokens[member[3]] = <<"punctuation", ",">>
             THEN ParseMembers(tokens, member[3] + 1,
                               Append(members, <<tokens[i][2], member[2]>>), FALSE)
             ELSE IF tokens[member[3]] = <<"punctuation", "}">>
             THEN <<"parsed", JObj(Append(members, <<tokens[i][2], member[2]>>)),
                    member[3] + 1>>
             ELSE Threw
       IN After(ParseValue(tokens, i + 2))

\* JSON.parse(text): the value, or Threw
JsonParse(text) ==
  LET Whole(tokens) ==
        IF tokens = Threw THEN Threw
        ELSE LET Top(parsed) ==
                   IF parsed = Threw \/ parsed[3] # Len(tokens[2]) + 1 THEN Threw
                   ELSE parsed[2]
             IN Top(ParseValue(tokens[2], 1))
  IN Whole(JsonTokens(text))

AppStateKeys ==
  <<<<"b","a","s","e","U","r","l">>, <<"s","p","e","c","U","r","l">>, <<"o","p","e","r","a","t","i","o","n","K","e","y">>, <<"m","a","n","u","a","l","M","e","t","h","o","d">>, <<"m","a","n","u","a","l","P","a","t","h">>,
    <<"p","a","t","h","P","a","r","a","m","s">>, <<"q","u","e","r","y","P","a","r","a","m","s">>, <<"h","e","a","d","e","r","P","a","r","a","m","s">>, <<"c","o","n","t","e","n","t","T","y","p","e">>, <<"b","o","d","y","J","s","o","n">>>>

defaultAppState ==
  JObj(<< <<<<"b","a","s","e","U","r","l">>, JStr(<<>>)>>,
          <<<<"s","p","e","c","U","r","l">>, JUndef>>,
          <<<<"o","p","e","r","a","t","i","o","n","K","e","y">>, JUndef>>,
          <<<<"m","a","n","u","a","l","M","e","t","h","o","d">>, JStr(<<"G","E","T">>)>>,
          <<<<"m","a","n","u","a","l","P","a","t","h">>, JStr(<<"/">>)>>,
          <<<<"p","a","t","h","P","a","r","a","m","s">>, JObj(<<>>)>>,
          <<<<"q","u","e","r","y","P","a","r","a","m","s">>, JObj(<<>>)>>,
          <<<<"h","e","a","d","e","r","P","a","r","a","m","s">>, JObj(<<>>)>>,
          <<<<"c","o","n","t","e","n","t","T","y","p","e">>, JStr(<<"a","p","p","l","i","c","a","t","i","o","n","/","j","s","o","n">>)>>,
          <<<<"b","o","d","y","J","s","o","n">>, JStr(<<>>)>> >>)

\* z.string().url(): a string new URL accepts
IsUrlString(x) == x[1] = "string" /\ NewURL(x[2], NoUrl).ok

\* z.string().default(d).catch(d)
StringOr(x, d) == IF x[1] = "string" THEN x ELSE JStr(d)

\* z.record(z.string(), z.string()).default({}).catch({})
RecordOr(x) ==
  IF x[1] = "object" /\ \A i \in 1..Len(x[2]) : x[2][i][2][1] = "string"
  THEN x ELSE JObj(<<>>)

\* appStateSchema.safeParse(x): <<"success", data>> or <<"failure", 0>>.
\* strict() refuses a key the schema does not name; every field has a
\* catch, so a field that does not validate is replaced, not refused.
appStateSchema(x) ==
  IF x[1] # "object" THEN <<"failure", 0>>
  ELSE IF \E i \in 1..Len(x[2]) :
            \A k \in 1..Len(AppStateKeys) : x[2][i][1] # AppStateKeys[k]
  THEN <<"failure", 0>>
  ELSE <<"success",
         JObj(<< <<<<"b","a","s","e","U","r","l">>, IF IsUrlString(Prop(x, <<"b","a","s","e","U","r","l">>))
                              THEN Prop(x, <<"b","a","s","e","U","r","l">>) ELSE JStr(<<>>)>>,
                 <<<<"s","p","e","c","U","r","l">>, IF IsUrlString(Prop(x, <<"s","p","e","c","U","r","l">>))
                              THEN Prop(x, <<"s","p","e","c","U","r","l">>) ELSE JUndef>>,
                 <<<<"o","p","e","r","a","t","i","o","n","K","e","y">>, IF Prop(x, <<"o","p","e","r","a","t","i","o","n","K","e","y">>)[1] = "string"
                                   THEN Prop(x, <<"o","p","e","r","a","t","i","o","n","K","e","y">>) ELSE JUndef>>,
                 <<<<"m","a","n","u","a","l","M","e","t","h","o","d">>, StringOr(Prop(x, <<"m","a","n","u","a","l","M","e","t","h","o","d">>), <<"G","E","T">>)>>,
                 <<<<"m","a","n","u","a","l","P","a","t","h">>, StringOr(Prop(x, <<"m","a","n","u","a","l","P","a","t","h">>), <<"/">>)>>,
                 <<<<"p","a","t","h","P","a","r","a","m","s">>, RecordOr(Prop(x, <<"p","a","t","h","P","a","r","a","m","s">>))>>,
                 <<<<"q","u","e","r","y","P","a","r","a","m","s">>, RecordOr(Prop(x, <<"q","u","e","r","y","P","a","r","a","m","s">>))>>,
                 <<<<"h","e","a","d","e","r","P","a","r","a","m","s">>, RecordOr(Prop(x, <<"h","e","a","d","e","r","P","a","r","a","m","s">>))>>,
                 <<<<"c","o","n","t","e","n","t","T","y","p","e">>, StringOr(Prop(x, <<"c","o","n","t","e","n","t","T","y","p","e">>), <<"a","p","p","l","i","c","a","t","i","o","n","/","j","s","o","n">>)>>,
                 <<<<"b","o","d","y","J","s","o","n">>, StringOr(Prop(x, <<"b","o","d","y","J","s","o","n">>), <<>>)>> >>)>>

\* { ...a, ...b }
Spread(a, b) ==
  LET Has(x, k) == \E i \in 1..Len(x[2]) : x[2][i][1] = k
  IN JObj([i \in 1..Len(a[2]) |->
             IF Has(b, a[2][i][1]) THEN <<a[2][i][1], Prop(b, a[2][i][1])>>
             ELSE a[2][i]]
          \o SelectSeq(b[2], LAMBDA e : ~Has(a, e[1])))

encodeStateToSearchParam(state) ==
  LET Bytes(json) == [i \in 1..Len(json) |-> CharCode[json[i]]]
  IN encodeBase64Url(deflate(Bytes(JsonStringify(state))))

\* bytes.byteLength > MAX_STATE_BYTES
TooLarge(bytes) == Len(bytes) > MAX_STATE_BYTES

decodeStateFromSearchParam(input) ==
  IF input = <<>> THEN defaultAppState
  ELSE LET Validated(res) ==
             IF res[1] = "success" THEN Spread(defaultAppState, res[2])
             ELSE defaultAppState
           Parsed(value) ==
             IF value = Threw THEN defaultAppState
             ELSE Validated(appStateSchema(value))
           Inflated(data) ==
             IF data = Threw THEN defaultAppState
             ELSE Parsed(JsonParse([i \in 1..Len(data[2]) |->
                                      FromCharCode(data[2][i])]))
           Decoded(bytes) ==
             IF bytes = Threw THEN defaultAppState
             ELSE IF TooLarge(bytes[2]) THEN defaultAppState
             ELSE Inflated(inflate(bytes[2]))
       IN Decoded(decodeBase64Url(input))

-----------------------------------------------------------------------------
(* The codec on its own: a state is encoded, the token decoded              *)
(* (src/routes/index.tsx 19, 36).                                           *)

RECURSIVE PowMod(_, _, _)
\* (g ^ e) % p
PowMod(g, e, p) ==
  IF e = 0 THEN 1
  ELSE LET Step(h) == IF e % 2 = 0 THEN (h * h) % p ELSE (((h * h) % p) * g) % p
       IN Step(PowMod(g, e \div 2, p))

LongTextLength == 30000

\* a text of letters, digits, "+" and "/" without a pattern a compressor
\* can use: the powers of a primitive root of the prime 46337, taken
\* modulo 64 (zlib deflates its 30000 characters to more than 22000 bytes)
LongText == [i \in 1..LongTextLength |-> Base64Chars[(PowMod(20001, i, 46337) % 64) + 1]]

AppState(baseUrl, specUrl, operationKey, pathParams, headerParams, bodyJson) ==
  JObj(<< <<<<"b","a","s","e","U","r","l">>, JStr(baseUrl)>>,
          <<<<"s","p","e","c","U","r","l">>, specUrl>>,
          <<<<"o","p","e","r","a","t","i","o","n","K","e","y">>, operationKey>>,
          <<<<"m","a","n","u","a","l","M","e","t","h","o","d">>, JStr(<<"P","O","S","T">>)>>,
          <<<<"m","a","n","u","a","l","P","a","t","h">>, JStr(<<"/","a","/","{","i","d","}">>)>>,
          <<<<"p","a","t","h","P","a","r","a","m","s">>, JObj(pathParams)>>,
          <<<<"q","u","e","r","y","P","a","r","a","m","s">>, JObj(<<>>)>>,
          <<<<"h","e","a","d","e","r","P","a","r","a","m","s">>, JObj(headerParams)>>,
          <<<<"c","o","n","t","e","n","t","T","y","p","e">>, JStr(<<"a","p","p","l","i","c","a","t","i","o","n","/","j","s","o","n">>)>>,
          <<<<"b","o","d","y","J","s","o","n">>, JStr(bodyJson)>> >>)

\* states the form can hold: every one passes appStateSchema.safeParse
AppStates ==
  { AppState(baseUrl, specUrl, operationKey, pathParams, headerParams, bodyJson) :
      baseUrl \in {<<>>, <<"h","t","t","p","s",":","/","/","a","p","i",".","t","e","s","t">>, <<"e","x","a","m","p","l","e",".","c","o","m">>},
      specUrl \in {JUndef, JStr(<<"h","t","t","p","s",":","/","/","s",".","t","e","s","t","/","o",".","j","s","o","n">>), JStr(<<"o",".","j","s","o","n">>)},
      operationKey \in {JUndef, JStr(<<"G","E","T"," ","/","a","/","{","i","d","}">>)},
      pathParams \in {<<>>, << <<<<"i","d">>, JStr(<<"1">>)>> >>,
                      << <<<<"i","d">>, JStr(<<"a","\"","b","\\","c">>)>>, <<<<"n">>, JStr(<<"?">>)>> >>},
      headerParams \in {<<>>, << <<<<"X","-","K","e","y">>, JStr(<<"v">>)>> >>},
      bodyJson \in {<<>>, <<"{","\"","a","\"",":","\"","\\","\\","\"","}">>} }
  \cup { defaultAppState,
         AppState(<<"h","t","t","p","s",":","/","/","a","p","i",".","t","e","s","t">>, JUndef, JUndef, <<>>, <<>>, LongText) }

StateInit ==
  /\ sState \in AppStates
  /\ sToken = "none"
  /\ sDecoded = "none"
  /\ sPc = "start"

\* const encoded = encodeStateToSearchParam(state), put in the search
\* parameter s
Encode ==
  /\ sPc = "start"
  /\ sToken' = encodeStateToSearchParam(sState)
  /\ sPc' = "encoded"
  /\ UNCHANGED <<sState, sDecoded, guardVars, relayVars, cacheVars, reduceVars>>

\* decodeStateFromSearchParam(search.s)
Decode ==
  /\ sPc = "encoded"
  /\ sDecoded' = decodeStateFromSearchParam(sToken)
  /\ sPc' = "done"
  /\ UNCHANGED <<sState, sToken, guardVars, relayVars, cacheVars, reduceVars>>

InitState == StateInit /\ GuardIdle /\ RelayIdle /\ CacheIdle /\ ReduceIdle

NextState == Encode \/ Decode

SpecState == InitState /\ [][NextState]_vars

-----------------------------------------------------------------------------
(* Claims about the codec *)

\* the value of a field, the entries of a map as a set
FieldOf(state, key) ==
  LET Plain(x) == IF x[1] = "object"
                  THEN <<"object", {x[2][i] : i \in 1..Len(x[2])}>> ELSE x
  IN Plain(Prop(state, key))

\* deep equality of two states: the same value under every key
SameState(a, b) ==
  \A k \in 1..Len(AppStateKeys) :
    FieldOf(a, AppStateKeys[k]) = FieldOf(b, AppStateKeys[k])

\* C16: decoding the token of a state gives that state back, whatever its
\* size
C16_RoundTrip == sPc = "done" => SameState(sDecoded, sState)

\* what the code gives instead: below the limit the state comes back as
\* appStateSchema parses it, a baseUrl or specUrl that is not a URL replaced
C16_RoundTripOfParsed ==
  sPc = "done" /\ ~TooLarge(decodeBase64Url(sToken)[2])
    => SameState(sDecoded, appStateSchema(sState)[2])

\* and a state whose deflated JSON is longer than the limit comes back as
\* the default state
C16_LargeFallsBack ==
  sPc = "done" /\ TooLarge(decodeBase64Url(sToken)[2])
    => SameState(sDecoded, defaultAppState)

C16_WitnessLarge ==
  /\ sPc = "done"
  /\ TooLarge(decodeBase64Url(sToken)[2])
  /\ ~SameState(sState, defaultAppState)

-----------------------------------------------------------------------------
(* Content-type injection, src/routes/index.tsx 667-676.                   *)

\* the positions of the caller's headers named content-type, in any letter
\* case
CallerContentTypes(req) ==
  { i \in 1..Len(req.headers) : ToLowerCase(req.headers[i][1]) = H_content_type }

\* the last of a non-empty set of positions
LastOf(positions) ==
  CHOOSE i \in positions : \A j \in positions : j <= i

\* C21: if the request supplies contentType and the caller's headers contain
\* no content-type header in any letter case, the upstream request has
\* content-type equal to contentType; if the caller's headers contain a
\* content-type header, that header's value is sent and contentType does not
\* overwrite it.
C21_ContentTypeInjected ==
  Len(rCalls) >= 1 =>
    /\ (rReq.contentType # Absent /\ CallerContentTypes(rReq) = {}) =>
         /\ H_content_type \in DOMAIN rCalls[1].headers
         /\ rCalls[1].headers[H_content_type] = rReq.contentType
    /\ CallerContentTypes(rReq) # {} =>
         /\ H_content_type \in DOMAIN rCalls[1].headers
         /\ \E i \in CallerContentTypes(rReq) :
              rCalls[1].headers[H_content_type] = rReq.headers[i][2]

\* C21 as amended: a supplied contentType that is not empty is sent as
\* content-type, without the white space around it, when the caller's
\* headers contain no content-type header in any letter case; an empty
\* contentType is treated as none, and the relay then sets no content-type;
\* a caller's content-type header is sent with the value of the last such
\* header, without the white space around it, whatever contentType is.
C21_ContentTypeInjectedTrimmed ==
  Len(rCalls) >= 1 =>
    /\ (rReq.contentType # Absent /\ Len(rReq.contentType) > 0
        /\ CallerContentTypes(rReq) = {}) =>
         /\ H_content_type \in DOMAIN rCalls[1].headers
         /\ rCalls[1].headers[H_content_type] = Trim(rReq.contentType)
    /\ ((rReq.contentType = Absent \/ rReq.contentType = <<>>)
        /\ CallerContentTypes(rReq) = {}) =>
         H_content_type \notin DOMAIN rCalls[1].headers
    /\ CallerContentTypes(rReq) # {} =>
         /\ H_content_type \in DOMAIN rCalls[1].headers
         /\ rCalls[1].headers[H_content_type]
              = Trim(rReq.headers[LastOf(CallerContentTypes(rReq))][2])

\* ' application/json ' has been supplied with no caller content-type and
\* the call carries application/json
C21_Witness ==
  /\ Len(rCalls) = 1
  /\ rReq.contentType
       = <<" ","a","p","p","l","i","c","a","t","i","o","n","/","j","s","o","n"," ">>
  /\ CallerContentTypes(rReq) = {}
  /\ rCalls[1].headers[H_content_type] = S_application_json

\* a caller's CONTENT-TYPE header has been sent although contentType was
\* supplied
C21_WitnessCallerWins ==
  /\ Len(rCalls) = 1
  /\ rReq.contentType = S_application_json
  /\ CallerContentTypes(rReq) # {}
  /\ rCalls[1].headers[H_content_type] = <<"t","e","x","t","/","x","m","l">>

-----------------------------------------------------------------------------
(* The relay's response, src/routes/index.tsx 690-699 and 751-755.         *)

\* the headers stripUnsafeResponseHeaders deletes
StrippedNames == {H_set_cookie, H_connection, H_transfer_encoding}

\* the headers the relay sets itself
ForcedNames == {H_cache_control, H_x_relay_target}

\* the URL of the last outbound request, parsed again
FetchedUrl == NewURL(rCalls[Len(rCalls)].url, NoUrl)

\* C22: the relay's response has the upstream's status code and status text,
\* carries every upstream header except set-cookie, connection and
\* transfer-encoding, which are never present, and always has cache-control
\* no-store and x-relay-target equal to the origin of the URL that was
\* fetched, whatever the upstream sent for those two.
C22_ResponseRelayed ==
  (rPc = "done" /\ rUpstream # NoResponse) =>
    /\ rResp.status = rUpstream.status
    /\ rResp.statusText = rUpstream.statusText
    /\ DOMAIN rResp.headers
         = (DOMAIN rUpstream.headers \ StrippedNames) \cup ForcedNames
    /\ \A n \in DOMAIN rResp.headers \ ForcedNames :
         rResp.headers[n] = rUpstream.headers[n]
    /\ rResp.headers[H_cache_control] = S_no_store
    /\ FetchedUrl.ok
    /\ rResp.headers[H_x_relay_target] = UrlOrigin(FetchedUrl)

\* a 200 that set a cookie, max-age=60 and its own x-relay-target has been
\* relayed
C22_Witness ==
  /\ rPc = "done"
  /\ rUpstream.status = 200
  /\ H_set_cookie \in DOMAIN rUpstream.headers
  /\ rUpstream.headers[H_x_relay_target] = <<"s","p","o","o","f">>
  /\ rResp.headers[H_x_relay_target] # <<"s","p","o","o","f">>
  /\ rResp.headers[H_content_type] = S_text_plain

\* a 204 with connection, transfer-encoding and keep-alive has been relayed
C22_WitnessStripped ==
  /\ rPc = "done"
  /\ rUpstream.status = 204
  /\ H_connection \in DOMAIN rUpstream.headers
  /\ H_keep_alive \in DOMAIN rResp.headers

=============================================================================
